---- MODULE Spec2Model ----
(***************************************************************************)
(* Multi-agent call analysis (agentic-backed): the orchestrator that runs  *)
(* five analysis agents over one transcript with asyncio.gather, reduces   *)
(* their results to one CallAnalysisReport, and the call_analyzer entry    *)
(* point in front of it.                                                   *)
(*                                                                         *)
(* Scheduling.  asyncio.gather wraps the five wrapper coroutines in tasks; *)
(* the event loop runs one task step at a time on a single thread and      *)
(* takes the ready tasks in the order gather created them (loop = "fifo"). *)
(* BaseAgent.generate_response calls the synchronous generate_content and  *)
(* never awaits, so a task step that has issued its generation call holds  *)
(* the thread until the call has come back.  SpecAnyOrder frees the loop   *)
(* to take the ready tasks in any order (loop = "any"): gather promises    *)
(* the order of the results only, and the statements about the order of    *)
(* the units are checked there.                                            *)
(***************************************************************************)
EXTENDS Integers, Sequences, FiniteSets, TLC

VARIABLES
    loop,             \* the event loop's discipline: "fifo" or "any"
    pc,               \* position of call_analyzer.analyze_call / OrchestratorAgent.analyze_call
    data,             \* processed_call_data: the dict handed to call_analyzer.analyze_call
    api_key,          \* whether GOOGLE_API_KEY is set in the environment
    orchestrator,     \* call_analyzer._orchestrator: "None" or "instance"
    constructions,    \* history: the OrchestratorAgent objects constructed so far
    call_id,          \* arguments of OrchestratorAgent.analyze_call (call_id as a tagged value)
    duration_seconds,
    transcript,
    upc,              \* position of each wrapper task: "none", "ready", "inCall", "done"
    calls,            \* number of generate_content calls each unit has issued
    results,          \* the list asyncio.gather fills, one slot per awaitable
    outcome,          \* how the call ended: a report or the exception that left it
    returned,         \* history: what each wrapper coroutine returned
    outOfOrder,       \* history: some task ran before a task listed earlier in gather
    sent,             \* history: model and generation_config of each unit's generate_content call
    received,         \* history: what generate_content gave back to each unit
    requests,         \* the webhook POSTs: body, position, processed_data, response, log history
    cur,              \* the request whose analyze_call is in progress (0: none)
    folders,          \* logs/: the folders in the order of their creation, with their files
    db,               \* database.py: the connection pool and the call_reports table
    db_returns,       \* history: how each call of save_call_report ended
    flat_report,      \* the CallReportDB built by from_analysis_report called on its own
    raw_message,      \* the webhook message given to process_end_of_call_report called on its own
    process_result,   \* what process_end_of_call_report returned or raised
    transformed,      \* what _transform_messages returned or raised
    raw_text,         \* the response text given to _parse_json_response called on its own
    parse_result,     \* what _parse_json_response returned, or that it raised ValueError
    w_pc,             \* worker.py: the statement the script has reached
    call_reports,     \* worker.py: the rows fetched from call_reports
    metrics,          \* worker.py: the day's aggregates
    artifacts,        \* worker.py: the files the script has written
    emails            \* the e-mails handed to the SMTP server

(* the daily reporting script *)
workerVars == <<w_pc, call_reports, metrics, artifacts, emails>>

(* functions called on their own *)
direct == <<raw_message, process_result, transformed, raw_text, parse_result>>

(* the state outside the web service *)
offline == <<flat_report, direct, workerVars>>

(* the state of one analyze_call *)
engine == <<loop, pc, data, api_key, orchestrator, constructions, call_id, duration_seconds, transcript,
          upc, calls, results, outcome, returned, outOfOrder, sent, received>>

(* the state outside the analysis pipeline *)
elsewhere == <<requests, cur, folders, db, db_returns, offline>>

vars == <<loop, pc, data, api_key, orchestrator, constructions, call_id, duration_seconds, transcript,
          upc, calls, results, outcome, returned, outOfOrder, sent, received, elsewhere>>

-----------------------------------------------------------------------------
(* The five agents, in the order of the awaitables given to asyncio.gather. *)

UnitOrder == <<"stress", "sentiment", "stressor", "blocker", "severity">>

Units == {UnitOrder[i] : i \in 1..Len(UnitOrder)}

Pos(u) == CHOOSE i \in 1..Len(UnitOrder) : UnitOrder[i] = u

(* agents/config.py: retry settings (declared, used nowhere). *)
MAX_RETRIES == 2

(* agents/config.py: seconds (declared, used nowhere). *)
DEFAULT_TIMEOUT == 30

-----------------------------------------------------------------------------
(* Values.  A JSON value is a tagged record; a parsed response is a        *)
(* function from field names to JSON values.                               *)

NoFields == [f \in {} |-> 0]

JBool(b) == [t |-> "bool", v |-> b]
JInt(i)  == [t |-> "int", v |-> i]
JStr(s)  == [t |-> "str", v |-> s]
JNull    == [t |-> "null", v |-> 0]
JList(s) == [t |-> "list", v |-> s]
JObj(o)  == [t |-> "object", v |-> o]
(* a JSON number with a fraction, kept in tenths: JTenths(9) is 0.9 *)
JTenths(n) == [t |-> "tenths", v |-> n]

(* What a wrapper coroutine hands to gather: a result model or an exception. *)
Value(fields)       == [kind |-> "value", exc |-> "", msg |-> "", fields |-> fields]
Raised(exc, msg)    == [kind |-> "exception", exc |-> exc, msg |-> msg, fields |-> NoFields]
NoResult            == [kind |-> "none", exc |-> "", msg |-> "", fields |-> NoFields]

-----------------------------------------------------------------------------
(* Response text, as a sequence of tokens: an opening ```json fence, a     *)
(* bare ``` fence, one whitespace character, one character of prose, or a  *)
(* complete JSON object.                                                   *)

FJ    == [t |-> "fence_json", v |-> NoFields]
F     == [t |-> "fence", v |-> NoFields]
W     == [t |-> "ws", v |-> NoFields]
P     == [t |-> "prose", v |-> NoFields]
J(p)  == [t |-> "json", v |-> p]

IsFence(tok) == tok.t \in {"fence_json", "fence"}

(* str.find over tokens: the first index >= from whose token satisfies the *)
(* test, 0 when there is none (Python's -1).                               *)
FindFenceJson(text, from) ==
    LET hits == {i \in from..Len(text) : text[i].t = "fence_json"}
    IN  IF hits = {} THEN 0 ELSE CHOOSE i \in hits : \A j \in hits : i <= j

FindFence(text, from) ==
    LET hits == {i \in from..Len(text) : IsFence(text[i])}
    IN  IF hits = {} THEN 0 ELSE CHOOSE i \in hits : \A j \in hits : i <= j

(* text[start:end] with end = -1: everything but the last character.  A    *)
(* one-character token disappears, a longer one is left broken.            *)
DropLastChar(text) ==
    IF Len(text) = 0 THEN text
    ELSE IF text[Len(text)].t \in {"ws", "prose"}
         THEN SubSeq(text, 1, Len(text) - 1)
         ELSE Append(SubSeq(text, 1, Len(text) - 1), P)

Slice(text, start, end) ==
    IF end = 0
    THEN LET cut == DropLastChar(text)
         IN  SubSeq(cut, start, Len(cut))
    ELSE SubSeq(text, start, end - 1)

RECURSIVE LStrip(_)
LStrip(text) ==
    IF Len(text) > 0 /\ text[1].t = "ws" THEN LStrip(Tail(text)) ELSE text

RECURSIVE RStrip(_)
RStrip(text) ==
    IF Len(text) > 0 /\ text[Len(text)].t = "ws"
    THEN RStrip(SubSeq(text, 1, Len(text) - 1)) ELSE text

Strip(text) == LStrip(RStrip(text))

(* json.loads: whitespace around one JSON document is accepted. *)
JsonLoads(text) ==
    LET s == Strip(text)
    IN  IF Len(s) = 1 /\ s[1].t = "json"
        THEN [ok |-> TRUE, dict |-> s[1].v]
        ELSE [ok |-> FALSE, dict |-> NoFields]

(* BaseAgent._parse_json_response *)
ParseJsonResponse(response_text) ==
    LET inner ==
            IF FindFenceJson(response_text, 1) # 0
            THEN LET json_start == FindFenceJson(response_text, 1) + 1
                     json_end   == FindFence(response_text, json_start)
                 IN  Strip(Slice(response_text, json_start, json_end))
            ELSE IF FindFence(response_text, 1) # 0
            THEN LET json_start == FindFence(response_text, 1) + 1
                     json_end   == FindFence(response_text, json_start)
                 IN  Strip(Slice(response_text, json_start, json_end))
            ELSE response_text
    IN  JsonLoads(inner)

-----------------------------------------------------------------------------
(* The generation service.  A response is what generate_content gives      *)
(* back: raised is "" or the text of the exception it raised; otherwise    *)
(* the number of candidates, the first candidate's finish_reason, whether  *)
(* it has content parts, and its text.                                     *)

Response(raised, candidates, finish_reason, has_parts, text) ==
    [raised |-> raised, candidates |-> candidates, finish_reason |-> finish_reason,
     has_parts |-> has_parts, text |-> text]

MsgNoCandidates == "No response candidates returned. Likely blocked by safety filters."
MsgSafety       == "SAFETY - Response blocked by safety filters"
MsgRecitation   == "RECITATION - Response blocked due to recitation"
MsgOther        == "OTHER - Response stopped for other reasons"
MsgUnknown      == "Unknown"
MsgNoParts      == "Response has no content parts"
MsgTimeout      == "504 Deadline Exceeded"

(* finish_reasons.get(candidate.finish_reason, "Unknown (n)") *)
FinishReasonText(n) ==
    CASE n = 2 -> MsgSafety
      [] n = 3 -> MsgRecitation
      [] n = 4 -> MsgOther
      [] OTHER -> MsgUnknown

(* BaseAgent.generate_response: every failure leaves as RuntimeError       *)
(* "Agent <model> failed: <msg>"; msg is kept, the prefix is not.          *)
GenerateResponse(resp) ==
    IF resp.raised # ""
    THEN [ok |-> FALSE, msg |-> resp.raised, text |-> <<>>]
    ELSE IF resp.candidates = 0
    THEN [ok |-> FALSE, msg |-> MsgNoCandidates, text |-> <<>>]
    ELSE IF resp.finish_reason # 1
    THEN [ok |-> FALSE, msg |-> FinishReasonText(resp.finish_reason), text |-> <<>>]
    ELSE IF ~resp.has_parts
    THEN [ok |-> FALSE, msg |-> MsgNoParts, text |-> <<>>]
    ELSE [ok |-> TRUE, msg |-> "", text |-> resp.text]

(* "SAFETY" in str(e): the upper-case word occurs in one message only. *)
ContainsSAFETY(msg) == msg = MsgSafety

-----------------------------------------------------------------------------
(* Pydantic validation of the parsed dict (models/analysis_models.py).     *)

TrueStrings  == {"1", "on", "t", "true", "y", "yes"}
FalseStrings == {"0", "off", "f", "false", "n", "no"}

(* a bool field in lax mode: bool, 0/1, or one of the accepted words *)
BoolOk(j) ==
    \/ j.t = "bool"
    \/ j.t = "int" /\ j.v \in {0, 1}
    \/ j.t = "str" /\ j.v \in TrueStrings \cup FalseStrings

AsBool(j) ==
    IF j.t = "bool" THEN j.v
    ELSE IF j.t = "int" THEN j.v = 1
    ELSE j.v \in TrueStrings

(* an int field: an integer, or a number whose fraction is zero *)
IntOk(j) == j.t = "int" \/ (j.t = "tenths" /\ j.v % 10 = 0)

AsInt(j) == IF j.t = "int" THEN j.v ELSE j.v \div 10

(* the counts declared without ge=0 *)
CountUnbounded(n) == TRUE

(* Field(ge=0) of SentimentCounts.positive / .negative *)
CountInRange(n) == n >= 0

(* SentimentCounts *)
SentimentCountsOk(j) ==
    /\ j.t = "object"
    /\ {"positive", "negative"} \subseteq DOMAIN j.v
    /\ IntOk(j.v.positive) /\ CountInRange(AsInt(j.v.positive))
    /\ IntOk(j.v.negative) /\ CountInRange(AsInt(j.v.negative))

SentimentCounts(positive, negative) == [positive |-> positive, negative |-> negative]

(* Optional[float] with ge=0.0, le=1.0, kept in tenths *)
ConfidenceOk(j) ==
    \/ j.t = "null"
    \/ j.t = "tenths" /\ j.v >= 0 /\ j.v <= 10
    \/ j.t = "int" /\ j.v >= 0 /\ j.v <= 1

AsConfidence(j) ==
    IF j.t = "null" THEN JNull
    ELSE IF j.t = "int" THEN JTenths(10 * j.v) ELSE j

(* Optional[list[str]] *)
IndicatorsOk(j) ==
    \/ j.t = "null"
    \/ j.t = "list" /\ \A i \in 1..Len(j.v) : j.v[i].t = "str"

ValidationError == Raised("ValidationError", "validation error")

StressDetectionResult(d) ==
    IF /\ "stressed_detected" \in DOMAIN d /\ BoolOk(d.stressed_detected)
       /\ ("confidence" \in DOMAIN d => ConfidenceOk(d.confidence))
    THEN Value([stressed_detected |-> AsBool(d.stressed_detected),
                confidence |-> IF "confidence" \in DOMAIN d
                               THEN AsConfidence(d.confidence) ELSE JNull])
    ELSE ValidationError

SentimentAnalysisResult(d) ==
    IF "sentiment_counts" \in DOMAIN d /\ SentimentCountsOk(d.sentiment_counts)
    THEN Value([sentiment_counts |->
                    SentimentCounts(AsInt(d.sentiment_counts.v.positive),
                                    AsInt(d.sentiment_counts.v.negative))])
    ELSE ValidationError

StressorIdentificationResult(d) ==
    IF "top_stressors" \notin DOMAIN d THEN Value([top_stressors |-> ""])
    ELSE IF d.top_stressors.t = "str" THEN Value([top_stressors |-> d.top_stressors.v])
    ELSE ValidationError

BlockerIdentificationResult(d) ==
    IF "common_blockers" \notin DOMAIN d THEN Value([common_blockers |-> ""])
    ELSE IF d.common_blockers.t = "str" THEN Value([common_blockers |-> d.common_blockers.v])
    ELSE ValidationError

(* a result model that keeps the flag and drops the indicators *)
SeverityClassificationResultFlagOnly(d) ==
    IF "is_severe_case" \in DOMAIN d /\ BoolOk(d.is_severe_case)
    THEN Value([is_severe_case |-> AsBool(d.is_severe_case), severity_indicators |-> JNull])
    ELSE ValidationError

SeverityClassificationResult(d) ==
    IF /\ "is_severe_case" \in DOMAIN d /\ BoolOk(d.is_severe_case)
       /\ ("severity_indicators" \in DOMAIN d => IndicatorsOk(d.severity_indicators))
    THEN Value([is_severe_case |-> AsBool(d.is_severe_case),
                severity_indicators |-> IF "severity_indicators" \in DOMAIN d
                                        THEN d.severity_indicators ELSE JNull])
    ELSE ValidationError

-----------------------------------------------------------------------------
(* The five agents: generate_response, _parse_json_response, result model. *)

ParseError == Raised("ValueError", "Failed to parse JSON response")

DetectStress(resp) ==
    LET gen == GenerateResponse(resp)
        parsed == ParseJsonResponse(gen.text)
    IN  IF ~gen.ok THEN Raised("RuntimeError", gen.msg)
        ELSE IF ~parsed.ok THEN ParseError
        ELSE StressDetectionResult(parsed.dict)

(* analyze_sentiment: a RuntimeError whose text holds "SAFETY" becomes the *)
(* neutral result, every other exception is raised again.                  *)
AnalyzeSentiment(resp) ==
    LET gen == GenerateResponse(resp)
        parsed == ParseJsonResponse(gen.text)
    IN  IF ~gen.ok
        THEN IF ContainsSAFETY(gen.msg)
             THEN Value([sentiment_counts |-> SentimentCounts(0, 0)])
             ELSE Raised("RuntimeError", gen.msg)
        ELSE IF ~parsed.ok THEN ParseError
        ELSE SentimentAnalysisResult(parsed.dict)

IdentifyStressors(resp) ==
    LET gen == GenerateResponse(resp)
        parsed == ParseJsonResponse(gen.text)
    IN  IF ~gen.ok THEN Raised("RuntimeError", gen.msg)
        ELSE IF ~parsed.ok THEN ParseError
        ELSE StressorIdentificationResult(parsed.dict)

IdentifyBlockers(resp) ==
    LET gen == GenerateResponse(resp)
        parsed == ParseJsonResponse(gen.text)
    IN  IF ~gen.ok THEN Raised("RuntimeError", gen.msg)
        ELSE IF ~parsed.ok THEN ParseError
        ELSE BlockerIdentificationResult(parsed.dict)

ClassifySeverity(resp) ==
    LET gen == GenerateResponse(resp)
        parsed == ParseJsonResponse(gen.text)
    IN  IF ~gen.ok THEN Raised("RuntimeError", gen.msg)
        ELSE IF ~parsed.ok THEN ParseError
        ELSE SeverityClassificationResult(parsed.dict)

(* The wrapper coroutines _run_stress_detector .. _run_severity_classifier: *)
(* the agent's result is returned, an exception is caught and returned as  *)
(* a value.                                                                *)
RunUnit(u, resp) ==
    CASE u = "stress"    -> DetectStress(resp)
      [] u = "sentiment" -> AnalyzeSentiment(resp)
      [] u = "stressor"  -> IdentifyStressors(resp)
      [] u = "blocker"   -> IdentifyBlockers(resp)
      [] u = "severity"  -> ClassifySeverity(resp)

-----------------------------------------------------------------------------
(* Reduction and report assembly (OrchestratorAgent.analyze_call, lines    *)
(* after the gather; CallAnalysisReport.create).                           *)

(* isinstance(result, Exception) *)
IsException(result) == result.kind = "exception"

(* OrchestratorAgent._extract_result: getattr(result, field, default) *)
ExtractResult(result, field, default) ==
    IF IsException(result) THEN default
    ELSE IF field \in DOMAIN result.fields THEN result.fields[field]
    ELSE default

(* _extract_sentiment without its isinstance(result, Exception) branch *)
ExtractSentimentUnguarded(result) ==
    IF "sentiment_counts" \in DOMAIN result.fields
    THEN [ok |-> TRUE, v |-> result.fields.sentiment_counts]
    ELSE [ok |-> FALSE, v |-> [positive |-> 0, negative |-> 0]]

(* OrchestratorAgent._extract_sentiment: result.sentiment_counts, an       *)
(* AttributeError when the object has no such attribute.                   *)
ExtractSentiment(result) ==
    IF IsException(result) THEN [ok |-> TRUE, v |-> SentimentCounts(0, 0)]
    ELSE IF "sentiment_counts" \in DOMAIN result.fields
    THEN [ok |-> TRUE, v |-> result.fields.sentiment_counts]
    ELSE [ok |-> FALSE, v |-> SentimentCounts(0, 0)]

NoReport == NoFields

NoOutcome           == [kind |-> "none", exc |-> "", site |-> "", report |-> NoReport]
Returns(report)     == [kind |-> "report", exc |-> "", site |-> "", report |-> report]
Raises(exc, site)   == [kind |-> "exception", exc |-> exc, site |-> site, report |-> NoReport]

(* pydantic's ValidationError is a ValueError *)
IsInstance(exc, cls) ==
    exc = cls \/ (cls = "ValueError" /\ exc = "ValidationError")

(* the duration field declared gt=0, as ProcessedCall declares it *)
DurationPositive(d) == d > 0

(* Field(ge=0) of CallAnalysisReport.call_duration_seconds *)
DurationInRange(d) == d >= 0

(* call_id: str of CallAnalysisReport; values that are not strings are rejected *)
IsStr(j) == j.t = "str"

(* CallAnalysisReport.create *)
Create(cid, dur, ts, stressed_detected, sentiment_counts, top_stressors, common_blockers, is_severe_case) ==
    IF IsStr(cid) /\ DurationInRange(dur)
    THEN Returns([call_id |-> cid,
                  call_duration_seconds |-> dur,
                  analysis_timestamp |-> ts,
                  analysis |-> [stressed_detected |-> stressed_detected,
                                sentiment_counts |-> sentiment_counts,
                                top_stressors |-> top_stressors,
                                common_blockers |-> common_blockers,
                                is_severe_case |-> is_severe_case]])
    ELSE Raises("ValidationError", "create")

(* the severity flag read from the stress result *)
ReduceAndCreateCrossed(cid, dur, ts, res) ==
    LET sentiment == ExtractSentiment(res[2])
    IN  IF ~sentiment.ok THEN Raises("AttributeError", "reduce")
        ELSE Create(cid, dur, ts,
                    ExtractResult(res[1], "stressed_detected", FALSE),
                    sentiment.v,
                    ExtractResult(res[3], "top_stressors", ""),
                    ExtractResult(res[4], "common_blockers", ""),
                    ExtractResult(res[1], "stressed_detected", FALSE))

(* OrchestratorAgent.analyze_call from the unpacking of the gathered list  *)
(* to the return.                                                          *)
ReduceAndCreate(cid, dur, ts, res) ==
    LET stress_result    == res[1]
        sentiment_result == res[2]
        stressor_result  == res[3]
        blocker_result   == res[4]
        severity_result  == res[5]
        stressed_detected == ExtractResult(stress_result, "stressed_detected", FALSE)
        sentiment         == ExtractSentiment(sentiment_result)
        top_stressors     == ExtractResult(stressor_result, "top_stressors", "")
        common_blockers   == ExtractResult(blocker_result, "common_blockers", "")
        is_severe_case    == ExtractResult(severity_result, "is_severe_case", FALSE)
    IN  IF ~sentiment.ok THEN Raises("AttributeError", "reduce")
        ELSE Create(cid, dur, ts, stressed_detected, sentiment.v, top_stressors,
                    common_blockers, is_severe_case)

-----------------------------------------------------------------------------
(* asyncio.gather(..., return_exceptions=True) and the event loop.         *)

(* gather without return_exceptions: the first exception among the results *)
(* is raised into analyze_call, whose except clause turns it into a        *)
(* RuntimeError                                                            *)
AwaitGatherFailFast(res) ==
    IF \E i \in 1..Len(res) : IsException(res[i])
    THEN [ok |-> FALSE, results |-> res]
    ELSE [ok |-> TRUE, results |-> res]

(* await asyncio.gather(..., return_exceptions=True): exceptions come back *)
(* as list elements, nothing is raised                                     *)
AwaitGather(res) == [ok |-> TRUE, results |-> res]

(* results appended as the tasks complete (asyncio.as_completed order) *)
GatherStoreAsCompleted(res, u, r) ==
    [res EXCEPT ![Cardinality({i \in 1..Len(res) : res[i].kind # "none"}) + 1] = r]

(* the result of an awaitable goes to the slot of that awaitable *)
GatherStore(res, u, r) == [res EXCEPT ![Pos(u)] = r]

(* waiting for the first completed task only *)
GatherFirstCompleted(upcs) == \E u \in Units : upcs[u] = "done"

(* the gather future completes only if every task was cancelled *)
GatherCancelled(upcs) == \A u \in Units : upcs[u] = "cancelled"

(* the gather future completes when every task is done *)
GatherComplete(upcs) == \A u \in Units : upcs[u] = "done"

(* a task whose first step is due: under "fifo" the first task still ready *)
(* in the order gather created them                                        *)
Runnable(l, upcs, u) ==
    /\ upcs[u] = "ready"
    /\ l = "fifo" => \A v \in Units : Pos(v) < Pos(u) => upcs[v] # "ready"

(* generate_content is a blocking call: no other task runs meanwhile *)
ThreadFree(upcs) == \A u \in Units : upcs[u] # "inCall"

(* a retry loop around generate_content that calls again MAX_RETRIES times *)
IssueCallWithRetries(n) == n + 1 + MAX_RETRIES

(* one generate_content call per generate_response *)
IssueCall(n) == n + 1

-----------------------------------------------------------------------------
(* What goes to the service with a generation call.  Temperatures are kept *)
(* in tenths.                                                              *)

STRESS_DETECTOR_MODEL     == "gemini-flash-latest"
SENTIMENT_ANALYZER_MODEL  == "gemini-flash-latest"
STRESSOR_FINDER_MODEL     == "gemini-flash-latest"
BLOCKER_FINDER_MODEL      == "gemini-flash-latest"
SEVERITY_CLASSIFIER_MODEL == "gemini-pro-latest"

(* agents/config.py: the settings declared for each agent *)
AGENT_SETTINGS ==
    [stress    |-> [model |-> STRESS_DETECTOR_MODEL, temperature |-> 2, max_tokens |-> 512],
     sentiment |-> [model |-> SENTIMENT_ANALYZER_MODEL, temperature |-> 3, max_tokens |-> 512],
     stressor  |-> [model |-> STRESSOR_FINDER_MODEL, temperature |-> 4, max_tokens |-> 1024],
     blocker   |-> [model |-> BLOCKER_FINDER_MODEL, temperature |-> 4, max_tokens |-> 1024],
     severity  |-> [model |-> SEVERITY_CLASSIFIER_MODEL, temperature |-> 1, max_tokens |-> 512]]

(* AgentConfig.TEMPERATURE / MAX_TOKENS with AGENT_TEMPERATURE and         *)
(* AGENT_MAX_TOKENS unset in the environment                               *)
TEMPERATURE == 3
MAX_TOKENS  == 1024

(* AgentConfig.GENERATION_CONFIG: one dict, built when the class is loaded *)
GENERATION_CONFIG == [temperature |-> TEMPERATURE, max_output_tokens |-> MAX_TOKENS]

(* the agents' __init__: the model name goes to BaseAgent, temperature and *)
(* max_tokens are stored on the agent                                      *)
AgentInit(u) ==
    [model_name  |-> AGENT_SETTINGS[u].model,
     temperature |-> AGENT_SETTINGS[u].temperature,
     max_tokens  |-> AGENT_SETTINGS[u].max_tokens]

(* str.upper() of the roles *)
Upper(role) ==
    CASE role = "user"      -> "USER"
      [] role = "assistant" -> "ASSISTANT"
      [] role = "system"    -> "SYSTEM"
      [] role = "unknown"   -> "UNKNOWN"
      [] OTHER              -> role

(* the parts _create_prompt joins with newlines *)
HeaderPart == [part |-> "CALL TRANSCRIPT:", role |-> "", content |-> "", seconds |-> 0]

MessagePart(msg) ==
    [part |-> "ROLE: content",
     role |-> Upper(IF "role" \in DOMAIN msg THEN msg.role ELSE "unknown"),
     content |-> IF "content" \in DOMAIN msg THEN msg.content ELSE "",
     seconds |-> 0]

DurationPart(duration) ==
    [part |-> "CALL DURATION: seconds", role |-> "", content |-> "", seconds |-> duration]

(* BaseAgent._create_prompt(transcript, duration): duration is None or a   *)
(* number, and "if duration:" is false for None and for 0                  *)
CreatePrompt(ts, duration) ==
    <<HeaderPart>> \o [i \in 1..Len(ts) |-> MessagePart(ts[i])]
    \o (IF duration.t # "null" /\ duration.v # 0 THEN <<DurationPart(duration.v)>> ELSE <<>>)

(* _build_<unit>_prompt: the base prompt and the unit's instruction; only  *)
(* _build_severity_prompt passes the duration on                           *)
BuildPrompt(u, ts, duration) ==
    [base_prompt |-> CreatePrompt(ts, IF u = "severity" THEN JInt(duration) ELSE JNull),
     instruction |-> u]

(* self.model.generate_content(prompt, generation_config=                  *)
(* AgentConfig.GENERATION_CONFIG) on the model built from model_name       *)
GenerationRequest(u) ==
    [model |-> AgentInit(u).model_name, generation_config |-> GENERATION_CONFIG,
     prompt |-> BuildPrompt(u, transcript, duration_seconds)]

NoRequest == [model |-> "", generation_config |-> NoFields, prompt |-> NoFields]

-----------------------------------------------------------------------------
(* Inputs and service responses explored.                                  *)

CallIds == {JStr("call-1"), JStr("call-2")}

AnyCallIds == CallIds \cup {JNull}

Durations == {0, 45}

AnyDurations == Durations \cup {-5}

Transcripts ==
    {<<[role |-> "user", content |-> "I might hurt myself"]>>,
     <<[role |-> "user", content |-> "I might hurt myself"],
       [role |-> "assistant", content |-> "I am here"]>>}

Timestamps == {"2025-11-29T06:55:00Z"}

GoodPayload(u) ==
    CASE u = "stress"    -> [stressed_detected |-> JBool(TRUE), confidence |-> JTenths(9)]
      [] u = "sentiment" -> [sentiment_counts |-> JObj([positive |-> JInt(2), negative |-> JInt(1)])]
      [] u = "stressor"  -> [top_stressors |-> JStr("work, health")]
      [] u = "blocker"   -> [common_blockers |-> JStr("waiting for approval")]
      [] u = "severity"  -> [is_severe_case |-> JBool(TRUE),
                             severity_indicators |-> JList(<<JStr("self-harm")>>)]

BadPayload(u) ==
    CASE u = "stress"    -> [stressed_detected |-> JBool(TRUE), confidence |-> JTenths(15)]
      [] u = "sentiment" -> [sentiment_counts |-> JObj([positive |-> JInt(-1), negative |-> JInt(3)])]
      [] u = "stressor"  -> [top_stressors |-> JNull]
      [] u = "blocker"   -> [common_blockers |-> JList(<<JStr("a")>>)]
      [] u = "severity"  -> [severity_indicators |-> JNull]

(* the slot of a unit that has not had its answer yet *)
NoResponse      == Response("", -1, 0, FALSE, <<>>)

RespTimeout     == Response(MsgTimeout, 0, 0, FALSE, <<>>)
RespSafety      == Response("", 1, 2, FALSE, <<>>)
RespProse       == Response("", 1, 1, TRUE, <<P, P>>)
RespBad(u)      == Response("", 1, 1, TRUE, <<J(BadPayload(u))>>)
RespGood(u)     == Response("", 1, 1, TRUE, <<FJ, W, J(GoodPayload(u)), W, F>>)

Responses(u) == {RespTimeout, RespSafety, RespProse, RespBad(u), RespGood(u)}

-----------------------------------------------------------------------------
(* OrchestratorAgent.analyze_call                                          *)

Idle == [u \in Units |-> "none"]

(* asyncio.gather: the five wrapper coroutines become tasks *)
Dispatch ==
    /\ pc = "start"
    /\ pc' = "await"
    /\ upc' = [u \in Units |-> "ready"]
    /\ UNCHANGED <<loop, data, api_key, orchestrator, constructions, call_id, duration_seconds, transcript,
                   calls, results, outcome, returned, outOfOrder>>
    /\ UNCHANGED <<sent, received, elsewhere>>

(* a task runs up to its generate_content call *)
UnitStart(u) ==
    /\ pc = "await"
    /\ Runnable(loop, upc, u)
    /\ ThreadFree(upc)
    /\ upc' = [upc EXCEPT ![u] = "inCall"]
    /\ calls' = [calls EXCEPT ![u] = IssueCall(calls[u])]
    /\ outOfOrder' = (outOfOrder \/ \E v \in Units : Pos(v) < Pos(u) /\ upc[v] = "ready")
    /\ UNCHANGED <<loop, pc, data, api_key, orchestrator, constructions, call_id, duration_seconds, transcript,
                   results, outcome, returned>>
    /\ sent' = [sent EXCEPT ![u] = GenerationRequest(u)]
    /\ UNCHANGED <<received, elsewhere>>

(* the call comes back; the agent parses and validates, the wrapper        *)
(* returns, gather records the result                                      *)
UnitReturn(u) ==
    /\ pc = "await"
    /\ upc[u] = "inCall"
    /\ \E resp \in Responses(u) :
          /\ results' = GatherStore(results, u, RunUnit(u, resp))
          /\ returned' = [returned EXCEPT ![u] = RunUnit(u, resp)]
          /\ received' = [received EXCEPT ![u] = resp]
    /\ upc' = [upc EXCEPT ![u] = "done"]
    /\ UNCHANGED <<loop, pc, data, api_key, orchestrator, constructions, call_id, duration_seconds, transcript,
                   calls, outcome, outOfOrder>>
    /\ UNCHANGED <<sent, elsewhere>>

(* the gather future is complete: analyze_call resumes, reduces, builds    *)
(* the report and returns it                                               *)
Resume ==
    /\ pc = "await"
    /\ GatherComplete(upc)
    /\ \E ts \in Timestamps :
          outcome' = IF AwaitGather(results).ok
                     THEN ReduceAndCreate(call_id, duration_seconds, ts,
                                          AwaitGather(results).results)
                     ELSE Raises("RuntimeError", "dispatch")
    /\ pc' = "done"
    /\ UNCHANGED <<loop, data, api_key, orchestrator, constructions, call_id, duration_seconds, transcript,
                   upc, calls, results, returned, outOfOrder>>
    /\ UNCHANGED <<sent, received, elsewhere>>

(* the dispatch primitive itself raises: except Exception -> RuntimeError *)
DispatchRaises ==
    /\ pc = "start"
    /\ outcome' = Raises("RuntimeError", "dispatch")
    /\ pc' = "done"
    /\ UNCHANGED <<loop, data, api_key, orchestrator, constructions, call_id, duration_seconds, transcript,
                   upc, calls, results, returned, outOfOrder>>
    /\ UNCHANGED <<sent, received, elsewhere>>

-----------------------------------------------------------------------------
(* call_analyzer.analyze_call                                              *)

RequiredFields == <<"call_id", "duration_seconds", "transcript">>

MissingRequired(d) == \E i \in 1..Len(RequiredFields) : RequiredFields[i] \notin DOMAIN d

(* the transcript check without its length test *)
BadTranscriptTypeOnly(t) == t.t # "list"

(* not isinstance(transcript, list) or len(transcript) == 0 *)
BadTranscript(t) == t.t # "list" \/ Len(t.v) = 0

Validate ==
    /\ pc = "validate"
    /\ IF MissingRequired(data) \/ BadTranscript(data.transcript)
       THEN /\ outcome' = Raises("ValueError", "validate")
            /\ pc' = "done"
            /\ UNCHANGED <<call_id, duration_seconds, transcript>>
       ELSE /\ call_id' = data.call_id
            /\ duration_seconds' = data.duration_seconds
            /\ transcript' = data.transcript.v
            /\ pc' = "get_orchestrator"
            /\ UNCHANGED outcome
    /\ UNCHANGED <<loop, data, api_key, orchestrator, constructions, upc, calls, results, returned, outOfOrder>>
    /\ UNCHANGED <<sent, received, elsewhere>>

(* an OrchestratorAgent constructed for every call *)
GetOrchestratorFresh ==
    /\ pc = "get_orchestrator"
    /\ IF ~api_key
       THEN /\ outcome' = Raises("ValueError", "construct")
            /\ pc' = "done"
            /\ UNCHANGED <<orchestrator, constructions>>
       ELSE /\ orchestrator' = "instance"
            /\ constructions' = constructions + 1
            /\ pc' = "start"
            /\ UNCHANGED outcome
    /\ UNCHANGED <<loop, data, api_key, call_id, duration_seconds, transcript,
                   upc, calls, results, returned, outOfOrder>>
    /\ UNCHANGED <<sent, received, elsewhere>>

(* get_orchestrator: the first call constructs OrchestratorAgent, whose    *)
(* agents configure the API and need GOOGLE_API_KEY                        *)
GetOrchestrator ==
    /\ pc = "get_orchestrator"
    /\ IF orchestrator = "None" /\ ~api_key
       THEN /\ outcome' = Raises("ValueError", "construct")
            /\ pc' = "done"
            /\ UNCHANGED <<orchestrator, constructions>>
       ELSE /\ orchestrator' = "instance"
            /\ constructions' = IF orchestrator = "None" THEN constructions + 1
                                 ELSE constructions
            /\ pc' = "start"
            /\ UNCHANGED outcome
    /\ UNCHANGED <<loop, data, api_key, call_id, duration_seconds, transcript,
                   upc, calls, results, returned, outOfOrder>>
    /\ UNCHANGED <<sent, received, elsewhere>>

-----------------------------------------------------------------------------
(* models/analysis_models.py: CallReportDB, the flattened row.             *)

(* Optional[str]: None when the report's string is empty ("if              *)
(* analysis.top_stressors:"), the string otherwise                         *)
OptionalStr(str) == IF str # "" THEN JStr(str) ELSE JNull

(* SentimentCounts.model_dump(): the dict of the two counts *)
ModelDump(sentiment_counts) ==
    [positive |-> sentiment_counts.positive, negative |-> sentiment_counts.negative]

(* CallReportDB.from_analysis_report *)
FromAnalysisReport(report) ==
    [call_id               |-> report.call_id,
     call_duration_seconds |-> report.call_duration_seconds,
     stressed_detected     |-> report.analysis.stressed_detected,
     sentiment_counts      |-> ModelDump(report.analysis.sentiment_counts),
     top_stressors         |-> OptionalStr(report.analysis.top_stressors),
     common_blockers       |-> OptionalStr(report.analysis.common_blockers),
     is_severe_case        |-> report.analysis.is_severe_case]

-----------------------------------------------------------------------------
(* database.py: DatabaseManager.  db.pool is "ready" or "None", db.out the *)
(* number of connections taken from the pool and not put back, db.rows the *)
(* committed rows of call_reports.  A fault names the first statement of   *)
(* save_call_report that raises.                                           *)

maxconn == 10

DbFaults == {"none", "getconn", "cursor", "execute", "commit", "close"}

Database(pool, out, rows) == [pool |-> pool, out |-> out, rows |-> rows]

(* get_connection: a missing pool is initialised again; no connection when *)
(* that fails, when getconn raises or when the pool is exhausted           *)
GetConnection(d, fault) ==
    IF fault = "getconn"
    THEN [ok |-> FALSE, db |-> d]
    ELSE IF d.out >= maxconn
    THEN [ok |-> FALSE, db |-> Database("ready", d.out, d.rows)]
    ELSE [ok |-> TRUE, db |-> Database("ready", d.out + 1, d.rows)]

(* return_connection: putconn *)
ReturnConnection(d) == Database(d.pool, d.out - 1, d.rows)

(* the finally clause: "if cursor:" reads a local that is unbound when     *)
(* get_connection or conn.cursor() raised (UnboundLocalError, which        *)
(* replaces the pending return), then cursor.close() and return_connection *)
Finally(d, has_conn, cursor_bound, ret) ==
    IF ~cursor_bound
    THEN [ret |-> "UnboundLocalError", db |-> d]
    ELSE [ret |-> ret, db |-> IF has_conn THEN ReturnConnection(d) ELSE d]

(* DatabaseManager.save_call_report: ret is "True", "False" or the name of *)
(* the exception that leaves the method                                    *)
SaveCallReport(d, report_db, fault) ==
    LET conn == GetConnection(d, fault)
    IN  IF ~conn.ok THEN Finally(conn.db, FALSE, FALSE, "False")
        ELSE IF fault = "cursor" THEN Finally(conn.db, TRUE, FALSE, "False")
        ELSE IF fault \in {"execute", "commit"} THEN Finally(conn.db, TRUE, TRUE, "False")
        ELSE IF fault = "close"
        THEN [ret |-> "Error",
              db |-> Database(conn.db.pool, conn.db.out, Append(conn.db.rows, report_db))]
        ELSE Finally(Database(conn.db.pool, conn.db.out, Append(conn.db.rows, report_db)),
                     TRUE, TRUE, "True")

-----------------------------------------------------------------------------
(* processors/call_report_processor.py.  A webhook message is a JSON       *)
(* object; process_end_of_call_report gives the validated ProcessedCall or *)
(* raises.                                                                 *)

EOCR == "end-of-call-report"

(* dict.get(key, default) *)
Get(obj, key, default) == IF key \in DOMAIN obj.v THEN obj.v[key] ELSE default

(* "not x" of a JSON value *)
Falsy(j) ==
    \/ j.t = "null"
    \/ j.t = "bool" /\ ~j.v
    \/ j.t \in {"int", "tenths"} /\ j.v = 0
    \/ j.t = "str" /\ j.v = ""
    \/ j.t = "list" /\ j.v = <<>>
    \/ j.t = "object" /\ DOMAIN j.v = {}

(* every raw message kept, whether it has content or not *)
HasContentUnchecked(raw_msg) == raw_msg.t = "object"

(* a raw message that reaches the transcript: a dict ("if not              *)
(* isinstance(raw_msg, dict): continue") with content ("if content:")      *)
HasContent(raw_msg) ==
    raw_msg.t = "object" /\ ~Falsy(Get(raw_msg, "message", JStr("")))

(* "for raw_msg in raw_messages": a list gives its entries; a str gives    *)
(* its characters and a dict its keys, none of them a dict (as far as the  *)
(* loop goes, none: the strings and dicts explored are short); None and    *)
(* numbers are not iterable                                                *)
Iterable(raw_messages) == raw_messages.t \in {"list", "str", "object"}

Entries(raw_messages) == IF raw_messages.t = "list" THEN raw_messages.v ELSE <<>>

(* the kept messages in the opposite order *)
TransformMessagesReversed(raw_messages) ==
    LET kept == SelectSeq(raw_messages, HasContent)
        role(m) == Get(m, "role", JStr("unknown"))
        content(m) == Get(m, "message", JStr(""))
    IN  IF \A i \in 1..Len(kept) : role(kept[i]).t = "str" /\ content(kept[i]).t = "str"
        THEN [ok |-> TRUE,
              transcript |-> [i \in 1..Len(kept) |->
                                 [role |-> role(kept[Len(kept) + 1 - i]).v,
                                  content |-> content(kept[Len(kept) + 1 - i]).v]]]
        ELSE [ok |-> FALSE, transcript |-> <<>>]

(* _transform_messages: role and message (renamed content) of the kept     *)
(* messages, in their order; TranscriptMessage wants two strings           *)
TransformMessages(raw_messages) ==
    LET kept == SelectSeq(raw_messages, HasContent)
        role(m) == Get(m, "role", JStr("unknown"))
        content(m) == Get(m, "message", JStr(""))
    IN  IF \A i \in 1..Len(kept) : role(kept[i]).t = "str" /\ content(kept[i]).t = "str"
        THEN [ok |-> TRUE,
              transcript |-> [i \in 1..Len(kept) |->
                                 [role |-> role(kept[i]).v, content |-> content(kept[i]).v]]]
        ELSE [ok |-> FALSE, transcript |-> <<>>]

Processed(call) == [ok |-> TRUE, exc |-> "", call |-> call]

(* the function has not been called *)
NoCall == [ok |-> FALSE, exc |-> "", call |-> NoFields]

ProcessFails(exc) == [ok |-> FALSE, exc |-> exc, call |-> NoFields]

(* ProcessedCall(...): strings where str is declared, a duration gt=0 *)
ProcessedCall(cid, agent_id, customer_number, call_type, start_timestamp, end_timestamp, duration, ts) ==
    IF /\ cid.t = "str" /\ agent_id.t = "str" /\ call_type.t = "str"
       /\ customer_number.t \in {"str", "null"}
       /\ start_timestamp.t = "str" /\ end_timestamp.t = "str"
       /\ duration.t = "int" /\ duration.v > 0
    THEN Processed([call_id |-> cid, agent_id |-> agent_id,
                    customer_number |-> customer_number, call_type |-> call_type,
                    start_timestamp |-> start_timestamp, end_timestamp |-> end_timestamp,
                    duration_seconds |-> duration.v, transcript |-> JList(ts)])
    ELSE ProcessFails("ValidationError")

(* process_end_of_call_report *)
ProcessEndOfCallReport(message) ==
    LET call == Get(message, "call", JObj(NoFields))
        customer == Get(message, "customer", JObj(NoFields))
        assistant == Get(message, "assistant", JObj(NoFields))
        raw_messages == Get(message, "messages", JList(<<>>))
    IN  IF Get(message, "type", JNull) # JStr(EOCR) THEN ProcessFails("ValueError")
        ELSE IF call.t # "object" THEN ProcessFails("ValueError")
        ELSE IF Falsy(Get(call, "id", JNull)) THEN ProcessFails("ValueError")
        ELSE IF customer.t # "object" THEN ProcessFails("AttributeError")
        ELSE IF assistant.t # "object" THEN ProcessFails("ValueError")
        ELSE IF Falsy(Get(assistant, "id", JNull)) THEN ProcessFails("ValueError")
        ELSE IF Falsy(Get(message, "startedAt", JNull)) THEN ProcessFails("ValueError")
        ELSE IF Falsy(Get(message, "endedAt", JNull)) THEN ProcessFails("ValueError")
        ELSE IF Get(message, "durationSeconds", JNull).t = "null" THEN ProcessFails("ValueError")
        ELSE IF ~Iterable(raw_messages) THEN ProcessFails("TypeError")
        ELSE IF ~TransformMessages(Entries(raw_messages)).ok THEN ProcessFails("ValidationError")
        ELSE ProcessedCall(Get(call, "id", JNull), Get(assistant, "id", JNull),
                           Get(customer, "number", JNull),
                           Get(call, "type", JStr("unknown")),
                           Get(message, "startedAt", JNull), Get(message, "endedAt", JNull),
                           Get(message, "durationSeconds", JNull),
                           TransformMessages(Entries(raw_messages)).transcript)

-----------------------------------------------------------------------------
(* utils/log_helpers.py.  logs/ is the sequence of the folders in the      *)
(* order they were created; a folder name is vapi_webhook_<type>_<time>_   *)
(* <uuid>, so among the folders of one type the name order is the creation *)
(* order.  A file is its prefix and the identifier in its name.            *)

(* msg_type.replace("/", "_").replace("\\", "_"), on the types explored *)
SafeType(msg_type) ==
    CASE msg_type = "tool/calls" -> "tool_calls"
      [] OTHER -> msg_type

(* _extract_call_id: message.call_id of the dumped body, else a fresh uuid *)
ExtractCallId(body) ==
    IF /\ body.t = "object" /\ "message" \in DOMAIN body.v
       /\ body.v.message.t = "object" /\ "call_id" \in DOMAIN body.v.message.v
    THEN body.v.message.v.call_id
    ELSE JStr("uuid")

File(prefix, id) == [prefix |-> prefix, id |-> id]

Folder(type, files) == [type |-> type, files |-> files]

(* LOGS_DIR.glob("vapi_webhook_<type>_*_*") *)
CandidateFolders(fs, safe_type) == {i \in 1..Len(fs) : fs[i].type = safe_type}

(* sorted(..., reverse=True)[0] *)
Latest(candidates) == CHOOSE i \in candidates : \A j \in candidates : j <= i

(* the raw file is written only when there is no processed data *)
SaveWebhookLogOneFile(fs, msg_type, body, processed_data) ==
    IF msg_type.t # "str"
    THEN [ok |-> FALSE, folders |-> fs, folder |-> 0]
    ELSE LET id == ExtractCallId(body)
             files == IF processed_data.t # "null"
                      THEN {File("processed", id)} ELSE {File("raw", id)}
         IN  [ok |-> TRUE,
              folders |-> Append(fs, Folder(SafeType(msg_type.v), files)),
              folder |-> Len(fs) + 1]

(* save_webhook_log: AttributeError when msg_type is not a string, else a  *)
(* new folder with the raw file and, if there is one, the processed file   *)
SaveWebhookLog(fs, msg_type, body, processed_data) ==
    IF msg_type.t # "str"
    THEN [ok |-> FALSE, folders |-> fs, folder |-> 0]
    ELSE LET id == ExtractCallId(body)
             files == {File("raw", id)} \cup
                      (IF processed_data.t # "null"
                       THEN {File("processed", id)} ELSE {})
         IN  [ok |-> TRUE,
              folders |-> Append(fs, Folder(SafeType(msg_type.v), files)),
              folder |-> Len(fs) + 1]

(* save_analysis_report: the analysis file goes to the newest folder of    *)
(* the message type, or to a new folder when there is none                 *)
SaveAnalysisReport(fs, msg_type, cid) ==
    LET candidate_folders == CandidateFolders(fs, SafeType(msg_type))
    IN  IF candidate_folders = {}
        THEN [folders |-> Append(fs, Folder(SafeType(msg_type),
                                            {File("analyzed", cid)})),
              folder |-> Len(fs) + 1]
        ELSE [folders |-> [fs EXCEPT ![Latest(candidate_folders)] =
                              Folder(@.type, @.files \cup {File("analyzed", cid)})],
              folder |-> Latest(candidate_folders)]

-----------------------------------------------------------------------------
(* main.py: vapi_webhook.  A handler runs on the event loop between its    *)
(* awaits: from the arrival of the body to "await analyze_call" (Handle,   *)
(* continued by Validate, GetOrchestrator and Dispatch up to the gather),  *)
(* and from the end of the gather to the response (Resume, Finish).  The   *)
(* orchestrator's variables hold one analysis; a request that reaches      *)
(* analyze_call while another analysis is in progress has its own taken up *)
(* when that one has ended (Enter): its tasks stand behind the other's in  *)
(* the loop's queue, and an analysis touches neither files nor rows.       *)

NumRequests == 2

RequestIds == 1..NumRequests

Http(status, content) == [status |-> status, content |-> content]

Pending == Http(0, "")

Ok == Http(200, "{\"status\": \"ok\"}")

(* HTTPException(status_code=400, ...) *)
BadRequest(detail) == Http(400, detail)

(* an exception that leaves the handler: the framework answers 500 *)
ServerError == Http(500, "Internal Server Error")

(* bytes that are not JSON *)
JInvalid == [t |-> "invalid", v |-> 0]

NewRequest(b) ==
    [body |-> b, pc |-> "received", processed |-> JNull, response |-> Pending,
     log_folder |-> 0, analysis_folder |-> 0, saved |-> "not called"]

(* vapi_webhook from "await request.json()" to the analysis block: the     *)
(* response if the handler ends here, processed_data, and the log folder   *)
VapiWebhook(body, fs) ==
    LET message == Get(body, "message", JNull)
        msg_type == Get(message, "type", JNull)
        processed_call == ProcessEndOfCallReport(message)
        processed_data == IF msg_type = JStr(EOCR) /\ processed_call.ok
                          THEN JObj(processed_call.call) ELSE JNull
        log == SaveWebhookLog(fs, msg_type, body, processed_data)
        Ends(response) == [response |-> response, processed |-> JNull, folders |-> fs,
                           log_folder |-> 0, analyze |-> FALSE]
    IN  IF body.t = "invalid" THEN Ends(BadRequest("Invalid JSON"))
        ELSE IF body.t # "object" THEN Ends(ServerError)
        ELSE IF message.t # "object" THEN Ends(BadRequest("Missing 'message' object"))
        ELSE IF ~log.ok THEN Ends(ServerError)
        ELSE [response |-> Ok, processed |-> processed_data, folders |-> log.folders,
              log_folder |-> log.folder,
              analyze |-> msg_type = JStr(EOCR) /\ ~Falsy(processed_data)]

(* no handler and no task holds the thread *)
LoopFree == pc \in {"idle", "await"} /\ ThreadFree(upc)

(* the handler of request r runs from the arrival of its body *)
Handle(r) ==
    /\ requests[r].pc = "received"
    /\ LoopFree
    /\ LET h == VapiWebhook(requests[r].body, folders)
           now == h.analyze /\ pc = "idle"
       IN  /\ folders' = h.folders
           /\ requests' = [requests EXCEPT ![r] =
                  [@ EXCEPT !.processed = h.processed,
                            !.log_folder = h.log_folder,
                            !.response = IF h.analyze THEN Pending ELSE h.response,
                            !.pc = IF ~h.analyze THEN "responded"
                                   ELSE IF now THEN "analyzing" ELSE "queued"]]
           /\ cur' = IF now THEN r ELSE cur
           /\ data' = IF now THEN h.processed.v ELSE data
           /\ pc' = IF now THEN "validate" ELSE pc
    /\ UNCHANGED <<loop, api_key, orchestrator, constructions, call_id, duration_seconds, transcript,
                   upc, calls, results, outcome, returned, outOfOrder, sent, received,
                   db, db_returns, offline>>

(* await analyze_call(processed_data) of a request that had to wait *)
Enter(r) ==
    /\ requests[r].pc = "queued"
    /\ pc = "idle"
    /\ requests' = [requests EXCEPT ![r].pc = "analyzing"]
    /\ cur' = r
    /\ data' = requests[r].processed.v
    /\ pc' = "validate"
    /\ UNCHANGED <<loop, api_key, orchestrator, constructions, call_id, duration_seconds, transcript,
                   upc, calls, results, outcome, returned, outOfOrder, sent, received,
                   folders, db, db_returns, offline>>

(* the analysis block after "await analyze_call": with a report, the       *)
(* analysis file, the flattened row and save_call_report; every exception  *)
(* (of analyze_call or of a save) is caught and printed                    *)
(* the row is saved whether analyze_call returned a report or raised *)
AnalysisBlockSavesAnyway(out, req, fs, d, fault) ==
    LET save == SaveCallReport(d, [call_id |-> req.processed.v.call_id], fault)
    IN  [folders |-> fs, folder |-> 0, db |-> save.db, saved |-> save.ret]

AnalysisBlock(out, req, fs, d, fault) ==
    IF out.kind # "report"
    THEN [folders |-> fs, folder |-> 0, db |-> d, saved |-> "not called"]
    ELSE LET file == SaveAnalysisReport(fs, Get(req.body.v.message, "type", JNull).v,
                                        req.processed.v.call_id)
             report_db == FromAnalysisReport(out.report)
             save == SaveCallReport(d, report_db, fault)
         IN  [folders |-> file.folders, folder |-> file.folder,
              db |-> save.db, saved |-> save.ret]

(* the handler of request r resumes with the outcome of analyze_call, runs *)
(* the rest of the analysis block and answers                              *)
Finish(r) ==
    /\ cur = r
    /\ pc = "done"
    /\ \E fault \in DbFaults :
          LET b == AnalysisBlock(outcome, requests[r], folders, db, fault)
          IN  /\ folders' = b.folders
              /\ db' = b.db
              /\ db_returns' = IF b.saved = "not called" THEN db_returns
                               ELSE Append(db_returns, b.saved)
              /\ requests' = [requests EXCEPT ![r] =
                     [@ EXCEPT !.pc = "responded", !.response = Ok,
                               !.analysis_folder = b.folder, !.saved = b.saved]]
    /\ cur' = 0
    /\ pc' = "idle"
    /\ data' = NoFields
    /\ call_id' = JNull
    /\ duration_seconds' = 0
    /\ transcript' = <<>>
    /\ upc' = Idle
    /\ calls' = [u \in Units |-> 0]
    /\ results' = [i \in 1..Len(UnitOrder) |-> NoResult]
    /\ returned' = [u \in Units |-> NoResult]
    /\ outcome' = NoOutcome
    /\ outOfOrder' = FALSE
    /\ sent' = [u \in Units |-> NoRequest]
    /\ received' = [u \in Units |-> NoResponse]
    /\ UNCHANGED <<loop, api_key, orchestrator, constructions, offline>>

-----------------------------------------------------------------------------
(* Specifications.                                                         *)

Fresh ==
    /\ upc = Idle
    /\ calls = [u \in Units |-> 0]
    /\ results = [i \in 1..Len(UnitOrder) |-> NoResult]
    /\ returned = [u \in Units |-> NoResult]
    /\ outcome = NoOutcome
    /\ outOfOrder = FALSE
    /\ sent = [u \in Units |-> NoRequest]
    /\ received = [u \in Units |-> NoResponse]

(* the reporting script has not been started *)
WorkerOff ==
    /\ w_pc = "off"
    /\ call_reports = <<>>
    /\ metrics = NoFields
    /\ artifacts = {}
    /\ emails = <<>>

(* nothing has run outside the web service *)
(* _parse_json_response has not been called on its own *)
NotParsed == raw_text = <<>> /\ parse_result = JsonLoads(<<>>)

(* no function has been called on its own *)
NotCalled ==
    /\ raw_message = JNull
    /\ process_result = NoCall
    /\ transformed = NoCall
    /\ NotParsed

Offline == flat_report = NoFields /\ NotCalled /\ WorkerOff

(* no webhook request, no log folder, no database activity *)
AtRest ==
    /\ requests = <<>>
    /\ cur = 0
    /\ folders = <<>>
    /\ db = Database("None", 0, <<>>)
    /\ db_returns = <<>>
    /\ Offline

(* Spec: one run of OrchestratorAgent.analyze_call on the inputs of its    *)
(* contract (a call id, a duration >= 0, a non-empty transcript).          *)
Inputs ==
    /\ pc = "start"
    /\ api_key = TRUE
    /\ orchestrator = "instance"
    /\ constructions = 1
    /\ call_id \in CallIds
    /\ duration_seconds \in Durations
    /\ transcript \in Transcripts
    /\ data = [call_id |-> call_id, duration_seconds |-> duration_seconds,
               transcript |-> JList(transcript)]
    /\ Fresh
    /\ AtRest

Init == loop = "fifo" /\ Inputs

Next ==
    \/ Dispatch
    \/ \E u \in Units : UnitStart(u)
    \/ \E u \in Units : UnitReturn(u)
    \/ Resume

Spec == Init /\ [][Next]_vars

(* SpecScheduled: the same run on an event loop that keeps running: a      *)
(* ready task is started and a completed gather resumes analyze_call.      *)
(* Nothing is assumed of the generation service: a call may never return.  *)
Scheduling ==
    /\ WF_vars(Dispatch)
    /\ \A u \in Units : WF_vars(UnitStart(u))
    /\ WF_vars(Resume)

SpecScheduled == Init /\ [][Next]_vars /\ Scheduling

(* SpecAnyOrder: the same run with the event loop free to take the ready   *)
(* tasks in any order.                                                     *)
InitAnyOrder == loop = "any" /\ Inputs

SpecAnyOrder == InitAnyOrder /\ [][Next]_vars

(* SpecCaller: one call of call_analyzer.analyze_call on any dict, with    *)
(* the API key configured.                                                 *)
TranscriptValues == {JList(t) : t \in Transcripts} \cup {JList(<<>>), JStr("hello")}

DataSet ==
    [call_id : AnyCallIds, duration_seconds : AnyDurations, transcript : TranscriptValues]
    \cup [call_id : AnyCallIds, duration_seconds : AnyDurations]
    \cup [call_id : AnyCallIds, transcript : TranscriptValues]
    \cup [duration_seconds : AnyDurations, transcript : TranscriptValues]
    \cup {NoFields}

InitCaller ==
    /\ loop = "fifo"
    /\ pc = "validate"
    /\ api_key = TRUE
    /\ orchestrator = "None"
    /\ constructions = 0
    /\ data \in DataSet
    /\ call_id = JNull
    /\ duration_seconds = 0
    /\ transcript = <<>>
    /\ Fresh
    /\ AtRest

NextCaller ==
    \/ Validate
    \/ GetOrchestrator
    \/ DispatchRaises
    \/ Next

SpecCaller == InitCaller /\ [][NextCaller]_vars

(* SpecWebhook: NumRequests POSTs to /vapi/webhook handled on one event    *)
(* loop, with the analysis, the log files and the database behind them.    *)

(* the transcript of a call in which the caller spoke *)
Spoken == <<JObj([role |-> JStr("user"), message |-> JStr("I might hurt myself")])>>

(* raw messages none of which has content *)
Silent == <<JObj([role |-> JStr("user"), message |-> JStr("")]),
            JObj([role |-> JStr("system")])>>

EndOfCallReport(id, customer, duration, raw_messages) ==
    JObj([type |-> JStr(EOCR),
          call |-> JObj([id |-> id, type |-> JStr("webCall")]),
          customer |-> customer,
          assistant |-> JObj([id |-> JStr("assistant-1")]),
          startedAt |-> JStr("2025-11-29T06:53:19Z"),
          endedAt |-> JStr("2025-11-29T06:55:00Z"),
          durationSeconds |-> duration,
          messages |-> JList(raw_messages)])

Caller == JObj([number |-> JStr("+1234567890")])

Messages ==
    {EndOfCallReport(id, Caller, JInt(45), Spoken) : id \in CallIds}
    \cup {EndOfCallReport(JStr("call-1"), Caller, JInt(45), Silent),
          EndOfCallReport(JStr("call-1"), JNull, JInt(45), Spoken),
          EndOfCallReport(JStr("call-1"), Caller, JInt(0), Spoken),
          EndOfCallReport(JNull, Caller, JInt(45), Spoken),
          JObj([type |-> JStr("status-update"), call_id |-> JStr("call-1")]),
          JObj([type |-> JStr("tool/calls")]),
          JObj(NoFields)}

Bodies ==
    {JObj([message |-> m]) : m \in Messages}
    \cup {JInvalid, JList(<<>>), JObj(NoFields), JObj([message |-> JStr(EOCR)])}

(* in the runs of the webhook the service answers well or times out *)
SteadyResponses(u) == {RespTimeout, RespGood(u)}

UnitReturnSteady(u) == UnitReturn(u) /\ received'[u] \in SteadyResponses(u)

InitWebhook ==
    /\ loop = "fifo"
    /\ pc = "idle"
    /\ api_key \in BOOLEAN
    /\ orchestrator = "None"
    /\ constructions = 0
    /\ data = NoFields
    /\ call_id = JNull
    /\ duration_seconds = 0
    /\ transcript = <<>>
    /\ Fresh
    /\ requests \in [RequestIds -> {NewRequest(b) : b \in Bodies}]
    /\ cur = 0
    /\ folders = <<>>
    /\ db = Database("ready", 0, <<>>)
    /\ db_returns = <<>>
    /\ Offline

NextWebhook ==
    \/ \E r \in RequestIds : Handle(r)
    \/ \E r \in RequestIds : Enter(r)
    \/ Validate
    \/ GetOrchestrator
    \/ Dispatch
    \/ DispatchRaises
    \/ \E u \in Units : UnitStart(u)
    \/ \E u \in Units : UnitReturnSteady(u)
    \/ Resume
    \/ \E r \in RequestIds : Finish(r)

SpecWebhook == InitWebhook /\ [][NextWebhook]_vars

(* SpecFlatten: CallReportDB.from_analysis_report applied to a report.     *)

SentimentValues == {SentimentCounts(0, 0), SentimentCounts(2, 1)}

Stressors == {"", "work, health"}

Blockers == {"", "waiting for approval"}

(* the reports CallAnalysisReport.create can build *)
Reports ==
    {Create(id, dur, ts, sd, sc, st, bl, sv).report :
        id \in CallIds, dur \in Durations, ts \in Timestamps, sd \in BOOLEAN,
        sc \in SentimentValues, st \in Stressors, bl \in Blockers, sv \in BOOLEAN}

Flatten ==
    /\ pc = "flatten"
    /\ flat_report' = FromAnalysisReport(outcome.report)
    /\ pc' = "flattened"
    /\ UNCHANGED <<loop, data, api_key, orchestrator, constructions, call_id, duration_seconds, transcript,
                   upc, calls, results, outcome, returned, outOfOrder, sent, received,
                   requests, cur, folders, db, db_returns, direct, workerVars>>

InitFlatten ==
    /\ loop = "fifo"
    /\ pc = "flatten"
    /\ api_key = TRUE
    /\ orchestrator = "instance"
    /\ constructions = 1
    /\ data = NoFields
    /\ call_id = JNull
    /\ duration_seconds = 0
    /\ transcript = <<>>
    /\ upc = Idle
    /\ calls = [u \in Units |-> 0]
    /\ results = [i \in 1..Len(UnitOrder) |-> NoResult]
    /\ returned = [u \in Units |-> NoResult]
    /\ outcome \in {Returns(report) : report \in Reports}
    /\ outOfOrder = FALSE
    /\ sent = [u \in Units |-> NoRequest]
    /\ received = [u \in Units |-> NoResponse]
    /\ AtRest

NextFlatten == Flatten

SpecFlatten == InitFlatten /\ [][NextFlatten]_vars

(* SpecUnit: one agent method (detect_stress, analyze_sentiment, ...)      *)
(* called on its own, with the service answering in any of the ways below. *)

(* the prompt was blocked: no candidates *)
RespBlocked     == Response("", 0, 0, FALSE, <<>>)
RespRecitation  == Response("", 1, 3, FALSE, <<>>)
RespOtherStop   == Response("", 1, 4, FALSE, <<>>)
(* finish_reason MAX_TOKENS *)
RespMaxTokens   == Response("", 1, 5, TRUE, <<P>>)
RespNoParts     == Response("", 1, 1, FALSE, <<>>)

ServiceFailures ==
    {RespTimeout, RespBlocked, RespSafety, RespRecitation, RespOtherStop, RespMaxTokens,
     RespNoParts}

(* JSON objects a model can answer with: the unit's schema, and the ways   *)
(* of missing it                                                           *)
Payloads(u) ==
    CASE u = "stress" ->
           {GoodPayload(u), BadPayload(u),
            [stressed_detected |-> JBool(FALSE)],
            [stressed_detected |-> JBool(TRUE), confidence |-> JNull],
            [stressed_detected |-> JBool(TRUE), confidence |-> JInt(1)],
            [stressed_detected |-> JBool(TRUE), confidence |-> JTenths(-1)],
            [stressed_detected |-> JBool(TRUE), confidence |-> JStr("high")],
            [confidence |-> JTenths(9)],
            [stressed_detected |-> JNull],
            [stressed_detected |-> JStr("maybe")],
            [stressed_detected |-> JStr("yes")],
            [stressed_detected |-> JInt(1)],
            [stressed_detected |-> JInt(2)]}
      [] u = "sentiment" ->
           {GoodPayload(u), BadPayload(u), NoFields,
            [sentiment_counts |-> JObj([positive |-> JInt(0), negative |-> JInt(0)])],
            [sentiment_counts |-> JObj([positive |-> JInt(2), negative |-> JInt(-1)])],
            [sentiment_counts |-> JObj([positive |-> JInt(2)])],
            [sentiment_counts |-> JObj([positive |-> JStr("two"), negative |-> JInt(1)])],
            [sentiment_counts |-> JObj([positive |-> JTenths(20), negative |-> JInt(1)])],
            [sentiment_counts |-> JObj([positive |-> JTenths(25), negative |-> JInt(1)])],
            [sentiment_counts |-> JStr("many")],
            [sentiment_counts |-> JNull],
            [positive |-> JInt(2), negative |-> JInt(1)]}
      [] u = "stressor" ->
           {GoodPayload(u), BadPayload(u), NoFields,
            [top_stressors |-> JStr("")],
            [top_stressors |-> JList(<<JStr("work")>>)],
            [top_stressors |-> JInt(5)],
            [top_stressors |-> JBool(TRUE)],
            [stressors |-> JStr("work")]}
      [] u = "blocker" ->
           {GoodPayload(u), BadPayload(u), NoFields,
            [common_blockers |-> JStr("")],
            [common_blockers |-> JNull],
            [common_blockers |-> JInt(5)],
            [common_blockers |-> JBool(TRUE)],
            [blockers |-> JStr("approvals")]}
      [] u = "severity" ->
           {GoodPayload(u), BadPayload(u), NoFields,
            [is_severe_case |-> JBool(FALSE)],
            [is_severe_case |-> JBool(FALSE), severity_indicators |-> JNull],
            [is_severe_case |-> JBool(TRUE), severity_indicators |-> JStr("self-harm")],
            [is_severe_case |-> JBool(TRUE), severity_indicators |-> JList(<<JInt(5)>>)],
            [is_severe_case |-> JNull],
            [is_severe_case |-> JStr("maybe")],
            [is_severe_case |-> JStr("true")],
            [is_severe_case |-> JInt(0)]}

(* a normal completion whose text is the object, bare or in a json fence *)
Bare(p) == Response("", 1, 1, TRUE, <<J(p)>>)

Fenced(p) == Response("", 1, 1, TRUE, <<FJ, W, J(p), W, F>>)

AllResponses(u) ==
    ServiceFailures \cup {RespProse}
    \cup {Bare(p) : p \in Payloads(u)} \cup {Fenced(p) : p \in Payloads(u)}

(* the agent method of unit u from its call to its return or raise *)
CallUnit(u) ==
    /\ pc = "unit"
    /\ \E resp \in AllResponses(u) :
          /\ received' = [received EXCEPT ![u] = resp]
          /\ returned' = [returned EXCEPT ![u] = RunUnit(u, resp)]
    /\ sent' = [sent EXCEPT ![u] = GenerationRequest(u)]
    /\ calls' = [calls EXCEPT ![u] = IssueCall(calls[u])]
    /\ upc' = [upc EXCEPT ![u] = "done"]
    /\ pc' = "returned"
    /\ UNCHANGED <<loop, data, api_key, orchestrator, constructions, call_id, duration_seconds, transcript,
                   results, outcome, outOfOrder, elsewhere>>

InitUnit ==
    /\ loop = "fifo"
    /\ pc = "unit"
    /\ api_key = TRUE
    /\ orchestrator = "instance"
    /\ constructions = 1
    /\ call_id \in CallIds
    /\ duration_seconds = 45
    /\ transcript \in Transcripts
    /\ data = NoFields
    /\ Fresh
    /\ AtRest

NextUnit == \E u \in Units : CallUnit(u)

SpecUnit == InitUnit /\ [][NextUnit]_vars

(* SpecDatabase: the module-level DatabaseManager and up to MaxSaves calls *)
(* of save_call_report, each meeting any of the faults.                    *)

MaxSaves == 3

(* rows to save: flattened reports that differ in call and severity *)
RowsToSave ==
    {FromAnalysisReport(Create(id, 45, ts, TRUE, SentimentCounts(2, 1), "work, health", "", sv).report) :
        id \in CallIds, ts \in Timestamps, sv \in BOOLEAN}

(* save_call_report(report_db), the module-level wrapper *)
SaveCall ==
    /\ pc = "database"
    /\ Len(db_returns) < MaxSaves
    /\ \E report_db \in RowsToSave, fault \in DbFaults :
          /\ db' = SaveCallReport(db, report_db, fault).db
          /\ db_returns' = Append(db_returns, SaveCallReport(db, report_db, fault).ret)
    /\ UNCHANGED <<engine, requests, cur, folders, offline>>

(* the state after "db_manager = DatabaseManager()": the pool was created, *)
(* or its creation failed and _pool is None                                *)
InitDatabase ==
    /\ loop = "fifo"
    /\ pc = "database"
    /\ api_key = TRUE
    /\ orchestrator = "None"
    /\ constructions = 0
    /\ data = NoFields
    /\ call_id = JNull
    /\ duration_seconds = 0
    /\ transcript = <<>>
    /\ Fresh
    /\ requests = <<>>
    /\ cur = 0
    /\ folders = <<>>
    /\ db \in {Database("ready", 0, <<>>), Database("None", 0, <<>>)}
    /\ db_returns = <<>>
    /\ Offline

NextDatabase == SaveCall

SpecDatabase == InitDatabase /\ [][NextDatabase]_vars

(* The daily reporting script (ai-engine/worker.py): a module-level script *)
(* that runs its statements once, top to bottom; an exception ends it.     *)

(* a row of call_reports as the script reads it: r[4] stressed_detected,   *)
(* r[5] sentiment_counts, r[6] top_stressors, r[7] common_blockers, r[8]   *)
(* is_severe_case                                                          *)
Selected(rows) == SelectSeq(rows, LAMBDA r : r.call_duration_seconds > 0)

(* a running total over the rows: "for r in call_reports: total += ..." *)
RECURSIVE Total(_)
Total(amounts) ==
    IF amounts = <<>> THEN 0 ELSE Head(amounts) + Total(Tail(amounts))

(* the rows for which flag "is True" *)
CountTrue(flags) == Total([i \in 1..Len(flags) |-> IF flags[i] = TRUE THEN 1 ELSE 0])

(* Python's float is the IEEE 754 binary64: a value above zero is kept as   *)
(* 53 bits, the first of them 1, and the power of two of the last bit;     *)
(* every operation gives the float nearest the exact result, a tie going   *)
(* to the even one. bits are written most significant first.               *)
Precision == 53

Float(bits, e) == [bits |-> bits, e |-> e, exc |-> ""]

(* 0.0, and the int 0 of "else 0", which compares equal to it *)
Zero == Float(<<>>, 0)

ZeroDivisionError == [bits |-> <<>>, e |-> 0, exc |-> "ZeroDivisionError"]

RECURSIVE Pow2(_)
Pow2(k) == IF k = 0 THEN 1 ELSE 2 * Pow2(k - 1)

Zeros(k) == IF k <= 0 THEN <<>> ELSE [i \in 1..k |-> 0]

Front(bits) == SubSeq(bits, 1, Len(bits) - 1)

Last(bits) == bits[Len(bits)]

Ones(bits) == {i \in 1..Len(bits) : bits[i] = 1}

(* bits without the zeros before its first 1, and without those after its  *)
(* last 1                                                                  *)
RECURSIVE Lead(_)
Lead(bits) == IF bits # <<>> /\ Head(bits) = 0 THEN Lead(Tail(bits)) ELSE bits

Trim(bits) ==
    IF Ones(bits) = {} THEN <<>>
    ELSE SubSeq(bits, 1, CHOOSE i \in Ones(bits) : \A j \in Ones(bits) : j <= i)

(* the binary digits of an int above zero *)
RECURSIVE IntBits(_)
IntBits(n) == IF n = 0 THEN <<>> ELSE IntBits(n \div 2) \o <<n % 2>>

(* bits + 1 *)
RECURSIVE LastZero(_, _)
LastZero(bits, i) == IF i = 0 \/ bits[i] = 0 THEN i ELSE LastZero(bits, i - 1)

Inc(bits) ==
    LET last == LastZero(bits, Len(bits))
    IN  IF last = 0 THEN <<1>> \o Zeros(Len(bits))
        ELSE SubSeq(bits, 1, last - 1) \o <<1>> \o Zeros(Len(bits) - last)

Reverse(bits) == [i \in 1..Len(bits) |-> bits[Len(bits) + 1 - i]]

(* the digits of x + y + carry from place hi back to place lo, the last    *)
(* digit first, and after them the carry out: the lower places first,      *)
(* their carry into the upper ones                                         *)
RECURSIVE SumOver(_, _, _, _, _)
SumOver(x, y, lo, hi, carry) ==
    IF lo > hi THEN <<carry>>
    ELSE IF lo = hi THEN <<(x[lo] + y[lo] + carry) % 2, (x[lo] + y[lo] + carry) \div 2>>
    ELSE LET mid == (lo + hi) \div 2
             lower == SumOver(x, y, mid + 1, hi, carry)
             upper == SumOver(x, y, lo, mid, Last(lower))
         IN  Front(lower) \o upper

(* a + b *)
AddBits(a, b) ==
    LET width == (IF Len(a) > Len(b) THEN Len(a) ELSE Len(b)) + 1
    IN  Reverse(Front(SumOver(Zeros(width - Len(a)) \o a, Zeros(width - Len(b)) \o b,
                              1, width, 0)))

(* the int that the digits of b write *)
RECURSIVE IntOf(_)
IntOf(b) == IF b = <<>> THEN 0 ELSE 2 * IntOf(Front(b)) + Last(b)

(* the digits of x * m + carry from place hi back to place lo, the last    *)
(* digit first, and after them the carry out                               *)
RECURSIVE ScaleOver(_, _, _, _, _)
ScaleOver(x, m, lo, hi, carry) ==
    IF lo > hi THEN <<carry>>
    ELSE IF lo = hi THEN <<(x[lo] * m + carry) % 2, (x[lo] * m + carry) \div 2>>
    ELSE LET mid == (lo + hi) \div 2
             lower == ScaleOver(x, m, mid + 1, hi, carry)
             upper == ScaleOver(x, m, lo, mid, Last(lower))
         IN  Front(lower) \o upper

(* a * b, b a few digits long *)
MulBits(a, b) ==
    LET scaled == ScaleOver(a, IntOf(b), 1, Len(a), 0)
    IN  IntBits(Last(scaled)) \o Reverse(Front(scaled))

(* the float nearest bits * 2^e (+ a rest below the last bit when sticky): *)
(* round to nearest, ties to even                                          *)
Round(digits, e, sticky) ==
    LET significant == Lead(digits)
        padded == significant \o Zeros(Precision + 1 - Len(significant))
        exponent == e - (Len(padded) - Len(significant))
        kept == SubSeq(padded, 1, Precision)
        half == padded[Precision + 1]
        below == sticky \/ \E i \in (Precision + 2)..Len(padded) : padded[i] = 1
        up == half = 1 /\ (below \/ Last(kept) = 1)
        rounded == IF up THEN Inc(kept) ELSE kept
        dropped == Len(padded) - Precision
    IN  IF Len(rounded) > Precision
        THEN Float(SubSeq(rounded, 1, Precision), exponent + dropped + 1)
        ELSE Float(rounded, exponent + dropped)

(* float(n) of an int n >= 0 *)
FromInt(n) == IF n = 0 THEN Zero ELSE Round(IntBits(n), 0, FALSE)

(* the next n binary digits of rest / total, and after them what is left:  *)
(* the first half of the digits, then the others from what it left         *)
RECURSIVE DivBits(_, _, _)
DivBits(rest, total, n) ==
    IF n = 0 THEN <<rest>>
    ELSE IF n = 1 THEN <<(2 * rest) \div total, (2 * rest) % total>>
    ELSE LET first == DivBits(rest, total, n \div 2)
             others == DivBits(Last(first), total, n - n \div 2)
         IN  Front(first) \o others

(* the doublings that bring part up to total *)
RECURSIVE Shift(_, _)
Shift(part, total) == IF part >= total THEN 0 ELSE 1 + Shift(2 * part, total)

(* part / total of two ints, part >= 0: the float nearest the quotient *)
TrueDiv(part, total) ==
    IF total = 0 THEN ZeroDivisionError
    ELSE IF part = 0 THEN Zero
    ELSE LET k == Shift(part, total)
             scaled == part * Pow2(k)
             whole == IntBits(scaled \div total)
             n == Precision + 1 - Len(whole)
             digits == DivBits(scaled % total, total, n)
         IN  Round(whole \o Front(digits), 0 - n - k, Last(digits) # 0)

(* x * y *)
Mul(x, y) ==
    IF x.exc # "" THEN x
    ELSE IF y.exc # "" THEN y
    ELSE IF x = Zero \/ y = Zero THEN Zero
    ELSE Round(MulBits(x.bits, Trim(y.bits)),
               x.e + y.e + (Precision - Len(Trim(y.bits))), FALSE)

(* x + y *)
Add(x, y) ==
    IF x = Zero THEN y
    ELSE IF y = Zero THEN x
    ELSE LET e == IF x.e < y.e THEN x.e ELSE y.e
         IN  Round(AddBits(x.bits \o Zeros(x.e - e), y.bits \o Zeros(y.e - e)), e, FALSE)

(* (part / total) * 100 *)
Percent(part, total) == Mul(TrueDiv(part, total), FromInt(100))

(* the percentage with its test of total left out *)
PercentageUnguarded(part, total) == Percent(part, total)

(* (part / total) * 100 if total > 0 else 0 *)
Percentage(part, total) == IF total > 0 THEN Percent(part, total) ELSE Zero

(* [tok.strip() for tok in str(field).split(",") if tok.strip()] *)
SplitStrip(str) ==
    CASE str = "work, health"          -> <<"work", "health">>
      [] str = "waiting for approval"  -> <<"waiting for approval">>
      [] str = ""                      -> <<>>
      [] OTHER                         -> <<str>>

(* the tokens of one field: "if s_field:" skips None and the empty string *)
FieldTokens(field) == IF IsStr(field) /\ field.v # "" THEN SplitStrip(field.v) ELSE <<>>

(* the tokens of a column, row after row *)
RECURSIVE Mentions(_)
Mentions(fields) ==
    IF fields = <<>> THEN <<>>
    ELSE FieldTokens(Head(fields)) \o Mentions(Tail(fields))

(* Counter.update over all rows: the count of each token *)
CounterOf(tokens) ==
    [name \in {tokens[i] : i \in 1..Len(tokens)} |->
        Cardinality({i \in 1..Len(tokens) : tokens[i] = name})]

RECURSIVE FirstSeen(_)
FirstSeen(tokens) ==
    IF tokens = <<>> THEN <<>>
    ELSE <<Head(tokens)>> \o FirstSeen(SelectSeq(Tail(tokens), LAMBDA t : t # Head(tokens)))

(* Counter.most_common(): by count, the largest first, equal counts in the *)
(* order the tokens were first counted                                     *)
RECURSIVE MostCommon(_, _)
MostCommon(names, counter) ==
    IF names = <<>> THEN <<>>
    ELSE LET top == CHOOSE i \in 1..Len(names) :
                        /\ \A j \in 1..Len(names) : counter[names[j]] <= counter[names[i]]
                        /\ \A j \in 1..(i - 1) : counter[names[j]] < counter[names[i]]
         IN  <<[name |-> names[top], count |-> counter[names[top]]]>>
             \o MostCommon(SubSeq(names, 1, top - 1) \o SubSeq(names, top + 1, Len(names)),
                           counter)

Ranked(tokens) == MostCommon(FirstSeen(tokens), CounterOf(tokens))

(* Steps 2 and 3: the aggregates of the fetched rows *)
Aggregate(rows) ==
    LET total_positive == Total([i \in 1..Len(rows) |-> rows[i].sentiment_counts.positive])
        total_negative == Total([i \in 1..Len(rows) |-> rows[i].sentiment_counts.negative])
        total_sentiments == total_positive + total_negative
        stressed_true == CountTrue([i \in 1..Len(rows) |-> rows[i].stressed_detected])
        stressed_false == Len(rows) - stressed_true
        total_calls == stressed_true + stressed_false
    IN  [total_positive          |-> total_positive,
         total_negative          |-> total_negative,
         positive_percentage     |-> Percentage(total_positive, total_sentiments),
         negative_percentage     |-> Percentage(total_negative, total_sentiments),
         stressed_percentage     |-> Percentage(stressed_true, total_calls),
         non_stressed_percentage |-> Percentage(stressed_false, total_calls),
         severe_cases            |-> CountTrue([i \in 1..Len(rows) |-> rows[i].is_severe_case]),
         rows_used               |-> Len(rows),
         todaysTopstressors      |-> Ranked(Mentions([i \in 1..Len(rows) |-> rows[i].top_stressors])),
         tracksCommonBlockers    |-> Ranked(Mentions([i \in 1..Len(rows) |-> rows[i].common_blockers]))]

(* the files the script writes *)
Charts == {"positive_vs_negative_experiences.png", "stress_reported_percentage.png",
           "severe_cases.png"}

pdf_filename == "Daily_Pulse_Report_2025-11-29.pdf"

(* an e-mail as send_email_with_attachment builds it *)
Email(to_address, attachment_path) == [to |-> to_address, attachment |-> attachment_path]

(* what the script leaves alone *)
service == <<engine, requests, cur, folders, db, db_returns, flat_report, direct>>

(* psycopg2.connect(...), conn.cursor() *)
Connect ==
    /\ w_pc = "start"
    /\ \E connected \in BOOLEAN : w_pc' = IF connected THEN "connected" ELSE "crashed"
    /\ UNCHANGED <<call_reports, metrics, artifacts, emails, service>>

(* Step 1: SELECT * FROM call_reports where call_duration_seconds > 0 *)
Query ==
    /\ w_pc = "connected"
    /\ w_pc' = "queried"
    /\ call_reports' = Selected(db.rows)
    /\ UNCHANGED <<metrics, artifacts, emails, service>>

Percentages == {"positive_percentage", "negative_percentage", "stressed_percentage",
                "non_stressed_percentage"}

(* Steps 2 and 3, ended by a ZeroDivisionError if a division raises one;   *)
(* Step 4, the INSERT into daily_metrics, is commented out *)
Aggregation ==
    /\ w_pc = "queried"
    /\ \E computed \in {Aggregate(call_reports)} :
          LET raised == \E name \in Percentages : computed[name].exc # ""
          IN  /\ w_pc' = IF raised THEN "crashed" ELSE "aggregated"
              /\ metrics' = IF raised THEN metrics ELSE computed
    /\ UNCHANGED <<call_reports, artifacts, emails, service>>

(* Step 6: SELECT * FROM daily_metrics ... LIMIT 5 *)
FetchHistory ==
    /\ w_pc = "aggregated"
    /\ \E fetched \in BOOLEAN : w_pc' = IF fetched THEN "fetched" ELSE "crashed"
    /\ UNCHANGED <<call_reports, metrics, artifacts, emails, service>>

(* Step 7: the three charts *)
Plot ==
    /\ w_pc = "fetched"
    /\ w_pc' = "plotted"
    /\ artifacts' = artifacts \cup Charts
    /\ UNCHANGED <<call_reports, metrics, emails, service>>

(* Step 8: client.responses.create and json.loads of its text: the call    *)
(* raises, or the text is not the JSON object asked for, or it is          *)
Suggest ==
    /\ w_pc = "plotted"
    /\ \E suggested \in BOOLEAN : w_pc' = IF suggested THEN "suggested" ELSE "crashed"
    /\ UNCHANGED <<call_reports, metrics, artifacts, emails, service>>

(* Step 9: PDFReport() ... pdf.output(pdf_filename) *)
WritePdf ==
    /\ w_pc = "suggested"
    /\ \E written \in BOOLEAN :
          /\ w_pc' = IF written THEN "pdf" ELSE "crashed"
          /\ artifacts' = IF written THEN artifacts \cup {pdf_filename} ELSE artifacts
    /\ UNCHANGED <<call_reports, metrics, emails, service>>

(* Step 10 and the end of the script: "def send_email_with_attachment"     *)
(* binds the name, nothing calls it; conn.commit(), cur.close(),           *)
(* conn.close()                                                            *)
Close ==
    /\ w_pc = "pdf"
    /\ w_pc' = "completed"
    /\ UNCHANGED <<call_reports, metrics, artifacts, emails, service>>

MaxRows == 2

(* the rows the web service can have stored *)
StoredRows ==
    {FromAnalysisReport(Create(JStr("call-1"), dur, ts, sd, sc, topics[1], topics[2], sv).report) :
        dur \in Durations, ts \in Timestamps, sd \in BOOLEAN, sc \in SentimentValues,
        topics \in {<<"", "">>, <<"work, health", "waiting for approval">>}, sv \in BOOLEAN}

RECURSIVE Tables(_)
Tables(n) ==
    IF n = 0 THEN {<<>>}
    ELSE Tables(n - 1) \cup {Append(t, row) : t \in Tables(n - 1), row \in StoredRows}

(* the script is started on a table of call_reports *)
InitWorker ==
    /\ loop = "fifo"
    /\ pc = "idle"
    /\ api_key = TRUE
    /\ orchestrator = "None"
    /\ constructions = 0
    /\ data = NoFields
    /\ call_id = JNull
    /\ duration_seconds = 0
    /\ transcript = <<>>
    /\ Fresh
    /\ requests = <<>>
    /\ cur = 0
    /\ folders = <<>>
    /\ db \in {Database("ready", 0, table) : table \in Tables(MaxRows)}
    /\ db_returns = <<>>
    /\ flat_report = NoFields
    /\ NotCalled
    /\ w_pc = "start"
    /\ call_reports = <<>>
    /\ metrics = NoFields
    /\ artifacts = {}
    /\ emails = <<>>

NextWorker ==
    \/ Connect
    \/ Query
    \/ Aggregation
    \/ FetchHistory
    \/ Plot
    \/ Suggest
    \/ WritePdf
    \/ Close

SpecWorker == InitWorker /\ [][NextWorker]_vars

(* SpecProcess: process_end_of_call_report and _transform_messages, each   *)
(* called once on a message of the webhook.                                *)

(* obj with key set to val, and obj without key *)
With(obj, key, val) ==
    JObj([k \in DOMAIN obj.v \cup {key} |-> IF k = key THEN val ELSE obj.v[k]])

Without(obj, key) == JObj([k \in DOMAIN obj.v \ {key} |-> obj.v[k]])

(* values a field of the payload can hold in place of the expected one *)
OddValues == {JNull, JStr(""), JStr("x"), JInt(0), JInt(-5), JList(<<>>), JObj(NoFields)}

MessageKeys == {"type", "call", "customer", "assistant", "startedAt", "endedAt",
                "durationSeconds", "messages"}

(* entries of "messages": with and without role, with empty, absent and    *)
(* non-text content, and one that is not a dict                            *)
RawEntries ==
    {JObj([role |-> JStr("user"), message |-> JStr("I might hurt myself")]),
     JObj([role |-> JStr("assistant"), message |-> JStr("I am here")]),
     JObj([message |-> JStr("hello")]),
     JObj([role |-> JStr("user"), message |-> JStr("")]),
     JObj([role |-> JStr("system")]),
     JObj([role |-> JNull, message |-> JStr("hello")]),
     JObj([role |-> JStr("user"), message |-> JInt(5)]),
     JStr("junk")}

MaxEntries == 3

RECURSIVE RawLists(_)
RawLists(n) ==
    IF n = 0 THEN {<<>>}
    ELSE RawLists(n - 1) \cup {Append(l, e) : l \in RawLists(n - 1), e \in RawEntries}

WellFormed == EndOfCallReport(JStr("call-1"), Caller, JInt(45), Spoken)

RawMessages ==
    {WellFormed}
    \cup {With(WellFormed, k, v) : k \in MessageKeys, v \in OddValues}
    \cup {Without(WellFormed, k) : k \in MessageKeys}
    \cup {With(WellFormed, k, JObj([id |-> v])) : k \in {"call", "assistant"}, v \in OddValues}
    \cup {With(WellFormed, "messages", JList(l)) : l \in RawLists(MaxEntries)}

(* process_end_of_call_report(message) *)
Process ==
    /\ pc = "process"
    /\ pc' = "processed"
    /\ process_result' = ProcessEndOfCallReport(raw_message)
    /\ UNCHANGED <<loop, data, api_key, orchestrator, constructions, call_id, duration_seconds, transcript,
                   upc, calls, results, outcome, returned, outOfOrder, sent, received,
                   requests, cur, folders, db, db_returns, flat_report, raw_message,
                   transformed, raw_text, parse_result, workerVars>>

(* _transform_messages(message["messages"]) *)
Transform ==
    /\ pc = "process"
    /\ "messages" \in DOMAIN raw_message.v
    /\ pc' = "transformed"
    /\ LET raw_messages == raw_message.v.messages
       IN  transformed' =
              IF ~Iterable(raw_messages) THEN ProcessFails("TypeError")
              ELSE IF ~TransformMessages(Entries(raw_messages)).ok
                   THEN ProcessFails("ValidationError")
                   ELSE Processed(TransformMessages(Entries(raw_messages)).transcript)
    /\ UNCHANGED <<loop, data, api_key, orchestrator, constructions, call_id, duration_seconds, transcript,
                   upc, calls, results, outcome, returned, outOfOrder, sent, received,
                   requests, cur, folders, db, db_returns, flat_report, raw_message,
                   process_result, raw_text, parse_result, workerVars>>

InitProcess ==
    /\ loop = "fifo"
    /\ pc = "process"
    /\ api_key = TRUE
    /\ orchestrator = "None"
    /\ constructions = 0
    /\ data = NoFields
    /\ call_id = JNull
    /\ duration_seconds = 0
    /\ transcript = <<>>
    /\ Fresh
    /\ requests = <<>>
    /\ cur = 0
    /\ folders = <<>>
    /\ db = Database("ready", 0, <<>>)
    /\ db_returns = <<>>
    /\ flat_report = NoFields
    /\ raw_message \in RawMessages
    /\ process_result = NoCall
    /\ transformed = NoCall
    /\ NotParsed
    /\ WorkerOff

NextProcess == Process \/ Transform

SpecProcess == InitProcess /\ [][NextProcess]_vars

(* SpecParse: _parse_json_response called once on a response text.        *)

MaxTextLen == 5

(* the pieces a response text is made of *)
Tokens == {FJ, F, W, P, J([stressed_detected |-> JBool(TRUE)])}

RECURSIVE Texts(_)
Texts(n) ==
    IF n = 0 THEN {<<>>}
    ELSE Texts(n - 1) \cup {Append(t, tok) : t \in Texts(n - 1), tok \in Tokens}

(* self._parse_json_response(response_text) *)
Parse ==
    /\ pc = "parse"
    /\ pc' = "parsed"
    /\ parse_result' = ParseJsonResponse(raw_text)
    /\ UNCHANGED <<loop, data, api_key, orchestrator, constructions, call_id, duration_seconds, transcript,
                   upc, calls, results, outcome, returned, outOfOrder, sent, received,
                   requests, cur, folders, db, db_returns, flat_report, raw_message,
                   process_result, transformed, raw_text, workerVars>>

InitParse ==
    /\ loop = "fifo"
    /\ pc = "parse"
    /\ api_key = TRUE
    /\ orchestrator = "None"
    /\ constructions = 0
    /\ data = NoFields
    /\ call_id = JNull
    /\ duration_seconds = 0
    /\ transcript = <<>>
    /\ Fresh
    /\ requests = <<>>
    /\ cur = 0
    /\ folders = <<>>
    /\ db = Database("ready", 0, <<>>)
    /\ db_returns = <<>>
    /\ flat_report = NoFields
    /\ raw_message = JNull
    /\ process_result = NoCall
    /\ transformed = NoCall
    /\ raw_text \in Texts(MaxTextLen)
    /\ parse_result = JsonLoads(<<>>)
    /\ WorkerOff

NextParse == Parse

SpecParse == InitParse /\ [][NextParse]_vars

-----------------------------------------------------------------------------
(* Properties.                                                             *)

Done == pc = "done"

Reported == outcome.kind = "report"

Analysis == outcome.report.analysis

Succeeded(u) == returned[u].kind = "value"

Failed(u) == returned[u].kind = "exception"

FieldOf(u) ==
    CASE u = "stress"    -> "stressed_detected"
      [] u = "sentiment" -> "sentiment_counts"
      [] u = "stressor"  -> "top_stressors"
      [] u = "blocker"   -> "common_blockers"
      [] u = "severity"  -> "is_severe_case"

DefaultOf(u) ==
    CASE u = "stress"    -> FALSE
      [] u = "sentiment" -> [positive |-> 0, negative |-> 0]
      [] u = "stressor"  -> ""
      [] u = "blocker"   -> ""
      [] u = "severity"  -> FALSE

(* the value a unit returned for its field, or the field's default *)
OwnValue(u) ==
    IF Succeeded(u) THEN returned[u].fields[FieldOf(u)] ELSE DefaultOf(u)

(* C1: every finished run has built a report, and in it each of the five   *)
(* analysis fields equals the value its own unit returned when that unit   *)
(* succeeded and the field's default when that unit failed, for every      *)
(* combination of successes and failures.                                  *)
C1_EachFieldFromItsOwnUnit ==
    Done =>
        /\ Reported
        /\ \A u \in Units : Analysis[FieldOf(u)] = OwnValue(u)

(* a mixed run: stress and severity succeeded with non-default values,     *)
(* sentiment and blocker failed, stressor succeeded                        *)
C1_Witness ==
    /\ Done /\ Reported
    /\ Succeeded("stress") /\ Analysis.stressed_detected = TRUE
    /\ Failed("sentiment") /\ Analysis.sentiment_counts = [positive |-> 0, negative |-> 0]
    /\ Succeeded("stressor") /\ Analysis.top_stressors = "work, health"
    /\ Failed("blocker") /\ Analysis.common_blockers = ""
    /\ Failed("severity") /\ Analysis.is_severe_case = FALSE

(* C2: when all five units failed, the run does not raise and returns a    *)
(* report whose five fields are false, {0,0}, "", "" and false.            *)
C2_AllFailedGivesDefaults ==
    (Done /\ \A u \in Units : Failed(u)) =>
        /\ Reported
        /\ Analysis = [stressed_detected |-> FALSE,
                       sentiment_counts |-> [positive |-> 0, negative |-> 0],
                       top_stressors |-> "",
                       common_blockers |-> "",
                       is_severe_case |-> FALSE]

C2_Witness == Done /\ Reported /\ \A u \in Units : Failed(u)

FailureKinds ==
    {Raised("RuntimeError", MsgTimeout), Raised("RuntimeError", MsgSafety),
     ParseError, ValidationError}

(* C3: whatever failures the units ended in (transport error or timeout,   *)
(* blocked response, unparseable text, schema violation), the run ends by  *)
(* returning a report and not by an exception; and a stress unit whose     *)
(* generation call timed out gives stressed_detected = false.              *)
C3_UnitFailureNeverEscapes ==
    (Done /\ \E u \in Units : Failed(u)) =>
        /\ Reported
        /\ returned["stress"] = Raised("RuntimeError", MsgTimeout)
              => Analysis.stressed_detected = FALSE

C3_Witness ==
    /\ Done /\ Reported
    /\ returned["stress"] = Raised("RuntimeError", MsgTimeout)
    /\ Analysis.stressed_detected = FALSE
    /\ \A k \in FailureKinds : \E u \in Units : returned[u] = k

C5_ReduceOnlyAfterAllOutcomes ==
    (\E u \in Units : upc[u] # "done" \/ returned[u].kind = "none")
        => (outcome = NoOutcome \/ outcome.site \in {"validate", "construct", "dispatch"})

C5_Witness ==
    /\ Reported
    /\ \A u \in Units : upc[u] = "done" /\ returned[u].kind # "none"
    /\ Failed("severity") /\ Succeeded("stress")

CallIssued(u) == upc[u] \in {"inCall", "done"}

CallCompleted(u) == upc[u] = "done"

(* C6 as stated: fire-all-then-await-all: no generation call has to        *)
(* complete before another unit's call is issued, so once any call has     *)
(* completed all five have been issued.                                    *)
C6_FireAllThenAwaitAll ==
    (\E u \in Units : CallCompleted(u)) => \A v \in Units : CallIssued(v)

(* C7: every unit issues at most one generation call at any time, and in   *)
(* every finished run each unit has issued exactly one call and has its    *)
(* own outcome, whatever the other units ended in.                         *)
C7_EachUnitCallsExactlyOnce ==
    /\ \A u \in Units : calls[u] <= 1
    /\ \A u \in Units : CallIssued(u) <=> calls[u] = 1
    /\ Done => \A u \in Units : calls[u] = 1 /\ (Succeeded(u) \/ Failed(u))

(* the first unit in gather's order failed and every later unit still made *)
(* its call and reached its own outcome                                    *)
C7_Witness ==
    /\ Done
    /\ Failed("stress")
    /\ \A u \in Units \ {"stress"} : calls[u] = 1 /\ Succeeded(u)

(* the list gather would hold had the units completed in gather's order *)
InOrder(ret) == [i \in 1..Len(UnitOrder) |-> ret[UnitOrder[i]]]

(* C8: for the outcomes the units had, the analysis block of the report is *)
(* the one a run in gather's order gives, whatever order the units started *)
(* and completed in.                                                       *)
C8_OrderDoesNotMatter ==
    Done =>
        /\ outcome.kind = ReduceAndCreate(call_id, duration_seconds, "", InOrder(returned)).kind
        /\ Reported =>
              Analysis = ReduceAndCreate(call_id, duration_seconds, "",
                                         InOrder(returned)).report.analysis

(* a run out of gather's order in which the last unit listed completed     *)
(* first and the units ended differently                                   *)
C8_Witness ==
    /\ Done /\ Reported
    /\ outOfOrder
    /\ Succeeded("severity") /\ Failed("stress") /\ Succeeded("sentiment")
    /\ Analysis.is_severe_case = TRUE

(* C9: every finished run returns a report; its call_id and                *)
(* call_duration_seconds are the inputs, its timestamp is set, the two     *)
(* flags are booleans, the two lists are strings and the sentiment counts  *)
(* are two integers.                                                       *)
C9_ReportComplete ==
    Done =>
        /\ Reported
        /\ DOMAIN outcome.report =
              {"call_id", "call_duration_seconds", "analysis_timestamp", "analysis"}
        /\ outcome.report.call_id = call_id
        /\ outcome.report.call_duration_seconds = duration_seconds
        /\ outcome.report.analysis_timestamp \in Timestamps
        /\ Analysis.stressed_detected \in BOOLEAN
        /\ Analysis.is_severe_case \in BOOLEAN
        /\ Analysis.top_stressors \in STRING
        /\ Analysis.common_blockers \in STRING
        /\ DOMAIN Analysis.sentiment_counts = {"positive", "negative"}
        /\ Analysis.sentiment_counts.positive \in Int
        /\ Analysis.sentiment_counts.negative \in Int

(* a report for a call of duration 0 in which some units failed *)
C9_Witness ==
    /\ Done /\ Reported
    /\ duration_seconds = 0
    /\ outcome.report.call_duration_seconds = 0
    /\ Failed("stress") /\ Failed("sentiment") /\ Succeeded("severity")

(* C10: both sentiment counts of every report are >= 0. *)
C10_CountsNonNegative ==
    Reported =>
        /\ Analysis.sentiment_counts.positive >= 0
        /\ Analysis.sentiment_counts.negative >= 0

(* the service answered the sentiment unit with a negative count: the unit *)
(* failed on validation and the report carries 0/0                         *)
C10_Witness ==
    /\ Reported
    /\ returned["sentiment"] = ValidationError
    /\ Analysis.sentiment_counts = [positive |-> 0, negative |-> 0]

-----------------------------------------------------------------------------
(* Properties of the webhook.                                              *)

Handled(r) == requests[r].pc # "received"

Responded(r) == requests[r].pc = "responded"

(* the processed call of request r has an empty transcript list *)
EmptyTranscript(r) ==
    requests[r].processed.t = "object" /\ requests[r].processed.v.transcript.v = <<>>

(* request r is an end-of-call-report all of whose messages are dicts      *)
(* without content                                                         *)
SilentCall(r) ==
    LET b == requests[r].body
    IN  /\ b.t = "object" /\ "message" \in DOMAIN b.v /\ b.v.message.t = "object"
        /\ {"type", "messages"} \subseteq DOMAIN b.v.message.v
        /\ b.v.message.v.type = JStr(EOCR)
        /\ \A i \in 1..Len(b.v.message.v.messages.v) :
              LET m == b.v.message.v.messages.v[i]
              IN  m.t = "object" /\ ("message" \in DOMAIN m.v => m.v.message = JStr(""))

(* request r is in its analysis and analyze_call has raised ValueError on  *)
(* the transcript check, before get_orchestrator                           *)
RejectedAtValidation(r) ==
    cur = r /\ pc = "done" /\ outcome = Raises("ValueError", "validate")

(* C11: a processed call with an empty transcript list (as when every      *)
(* webhook message had empty content) never reaches the orchestrator:      *)
(* analyze_call raises ValueError at its transcript check, no unit is      *)
(* dispatched or makes a generation call, no analysis file is written and  *)
(* save_call_report is not called for that request.                        *)
C11_EmptyTranscriptNeverAnalysed ==
    \A r \in RequestIds :
        /\ (SilentCall(r) /\ Handled(r) /\ requests[r].processed.t = "object")
              => EmptyTranscript(r)
        /\ EmptyTranscript(r) =>
              /\ cur = r =>
                    /\ pc \in {"validate", "done"}
                    /\ pc = "done" => RejectedAtValidation(r)
                    /\ upc = Idle
                    /\ \A u \in Units : calls[u] = 0 /\ sent[u] = NoRequest
              /\ requests[r].analysis_folder = 0
              /\ requests[r].saved = "not called"
              /\ Responded(r) => requests[r].response = Ok

(* a silent call has been processed, logged, rejected by analyze_call, and *)
(* the other request's report is in the table                              *)
C11_Witness ==
    \E r \in RequestIds :
        /\ SilentCall(r) /\ EmptyTranscript(r) /\ RejectedAtValidation(r)
        /\ requests[r].log_folder # 0
        /\ Len(db.rows) = 1

-----------------------------------------------------------------------------
(* Properties of the flattened row.                                        *)

Flattened == pc = "flattened"

(* the five semantic fields as a reader of the row gets them *)
ReadBack(row) ==
    [stressed_detected |-> row.stressed_detected,
     sentiment_counts  |-> SentimentCounts(row.sentiment_counts.positive,
                                           row.sentiment_counts.negative),
     top_stressors     |-> row.top_stressors,
     common_blockers   |-> row.common_blockers,
     is_severe_case    |-> row.is_severe_case]

(* C12: the five semantic fields read back from the flattened record are   *)
(* exactly the report's stressed_detected, sentiment_counts, top_stressors *)
(* and common_blockers (strings, the empty string included) and            *)
(* is_severe_case.                                                         *)
C12_RoundTrip ==
    Flattened =>
        LET analysis == outcome.report.analysis
            back == ReadBack(flat_report)
        IN  /\ back.stressed_detected = analysis.stressed_detected
            /\ back.sentiment_counts = analysis.sentiment_counts
            /\ back.top_stressors = JStr(analysis.top_stressors)
            /\ back.common_blockers = JStr(analysis.common_blockers)
            /\ back.is_severe_case = analysis.is_severe_case

-----------------------------------------------------------------------------
(* Properties of the generation calls.                                     *)

CallSent(u) == sent[u] # NoRequest

(* C13: the generation call of each unit carries the model, the            *)
(* temperature and the maximum output tokens that AGENT_SETTINGS declares  *)
(* for that unit.                                                          *)
C13_OwnGenerationProfile ==
    \A u \in Units :
        CallSent(u) =>
            /\ sent[u].model = AGENT_SETTINGS[u].model
            /\ sent[u].generation_config.temperature = AGENT_SETTINGS[u].temperature
            /\ sent[u].generation_config.max_output_tokens = AGENT_SETTINGS[u].max_tokens

-----------------------------------------------------------------------------
(* Properties of one agent method.                                         *)

UnitReturned(u) == pc = "returned" /\ upc[u] = "done"

Neutral == Value([sentiment_counts |-> SentimentCounts(0, 0)])

(* the generation was blocked by the safety filters: no candidate came     *)
(* back, or the candidate's finish reason is SAFETY (2)                    *)
SafetyBlocked(resp) ==
    resp.raised = "" /\ (resp.candidates = 0 \/ resp.finish_reason = 2)

(* the generation call failed, or its text holds no JSON object *)
NoPayload(resp) ==
    \/ resp.raised # "" \/ resp.candidates = 0 \/ resp.finish_reason # 1 \/ ~resp.has_parts
    \/ \A i \in 1..Len(resp.text) : resp.text[i].t # "json"

(* C14: analyze_sentiment returns the neutral result as a success when the *)
(* generation was blocked by the safety filters (no candidates, or finish  *)
(* reason SAFETY), and only then: every other failure of the call and      *)
(* every malformed output is raised.                                       *)
C14_SafetyBlockDistinguished ==
    UnitReturned("sentiment") =>
        /\ SafetyBlocked(received["sentiment"]) => returned["sentiment"] = Neutral
        /\ (NoPayload(received["sentiment"]) /\ ~SafetyBlocked(received["sentiment"]))
              => Failed("sentiment")

-----------------------------------------------------------------------------
(* Properties of a well-formed answer.                                     *)

(* the generation completed normally and its text is one JSON object,      *)
(* alone or in a json fence                                                *)
NormalCompletion(resp) ==
    /\ resp.raised = "" /\ resp.candidates > 0 /\ resp.finish_reason = 1 /\ resp.has_parts
    /\ Cardinality({i \in 1..Len(resp.text) : resp.text[i].t = "json"}) = 1
    /\ \A i \in 1..Len(resp.text) : resp.text[i].t \in {"json", "ws", "fence_json", "fence"}

(* the JSON object of a normal completion *)
ObjectOf(resp) ==
    resp.text[CHOOSE i \in 1..Len(resp.text) : resp.text[i].t = "json"].v

IsNumber(j) == j.t \in {"int", "tenths"}

(* the object has the fields of unit u's schema with their JSON types *)
SatisfiesSchema(u, d) ==
    CASE u = "stress" ->
           /\ "stressed_detected" \in DOMAIN d /\ d.stressed_detected.t = "bool"
           /\ "confidence" \in DOMAIN d =>
                 \/ d.confidence.t = "null"
                 \/ d.confidence.t = "tenths" /\ d.confidence.v \in 0..10
      [] u = "sentiment" ->
           /\ "sentiment_counts" \in DOMAIN d /\ d.sentiment_counts.t = "object"
           /\ DOMAIN d.sentiment_counts.v = {"positive", "negative"}
           /\ \A k \in {"positive", "negative"} :
                 d.sentiment_counts.v[k].t = "int" /\ d.sentiment_counts.v[k].v >= 0
      [] u = "stressor" -> "top_stressors" \in DOMAIN d /\ d.top_stressors.t = "str"
      [] u = "blocker" -> "common_blockers" \in DOMAIN d /\ d.common_blockers.t = "str"
      [] u = "severity" ->
           /\ "is_severe_case" \in DOMAIN d /\ d.is_severe_case.t = "bool"
           /\ "severity_indicators" \in DOMAIN d =>
                 \/ d.severity_indicators.t = "null"
                 \/ /\ d.severity_indicators.t = "list"
                    /\ \A i \in 1..Len(d.severity_indicators.v) :
                          d.severity_indicators.v[i].t = "str"

(* the value of unit u's report field in the object *)
FieldIn(u, d) ==
    CASE u = "stress" -> d.stressed_detected.v
      [] u = "sentiment" -> [positive |-> d.sentiment_counts.v.positive.v,
                             negative |-> d.sentiment_counts.v.negative.v]
      [] u = "stressor" -> d.top_stressors.v
      [] u = "blocker" -> d.common_blockers.v
      [] u = "severity" -> d.is_severe_case.v

(* the optional field of the object is in the result as it was sent *)
OptionalCarried(u, d) ==
    CASE u = "stress" ->
           "confidence" \in DOMAIN d => returned[u].fields.confidence = d.confidence
      [] u = "severity" ->
           "severity_indicators" \in DOMAIN d =>
               returned[u].fields.severity_indicators = d.severity_indicators
      [] OTHER -> TRUE

WellAnswered(u) ==
    /\ upc[u] = "done"
    /\ NormalCompletion(received[u])
    /\ SatisfiesSchema(u, ObjectOf(received[u]))

(* C15: a unit whose generation completed normally with a JSON object that *)
(* satisfies its schema returns a success result with the values of that   *)
(* object, and the report carries the unit's field unchanged; for the      *)
(* transcript [{user, "I might hurt myself"}] and duration 45 answered     *)
(* with is_severe_case true and a non-null indicator list the severity     *)
(* result has is_severe_case true and non-null severity_indicators and the *)
(* report has is_severe_case true.                                         *)
C15_SchemaObjectCarriedUnchanged ==
    /\ \A u \in Units :
          WellAnswered(u) =>
             /\ Succeeded(u)
             /\ returned[u].fields[FieldOf(u)] = FieldIn(u, ObjectOf(received[u]))
             /\ OptionalCarried(u, ObjectOf(received[u]))
             /\ Done => (Reported /\ Analysis[FieldOf(u)] = FieldIn(u, ObjectOf(received[u])))
    /\ ( /\ upc["severity"] = "done"
         /\ transcript = <<[role |-> "user", content |-> "I might hurt myself"]>>
         /\ duration_seconds = 45
         /\ received["severity"] = RespGood("severity") ) =>
             /\ returned["severity"].fields.is_severe_case = TRUE
             /\ returned["severity"].fields.severity_indicators # JNull
             /\ Done => Analysis.is_severe_case = TRUE

(* the scenario, finished, next to a stress unit that timed out *)
C15_Witness ==
    /\ Done /\ Reported
    /\ transcript = <<[role |-> "user", content |-> "I might hurt myself"]>>
    /\ duration_seconds = 45
    /\ received["severity"] = RespGood("severity")
    /\ WellAnswered("severity")
    /\ returned["severity"].fields.severity_indicators = JList(<<JStr("self-harm")>>)
    /\ Analysis.is_severe_case = TRUE
    /\ received["stress"] = RespTimeout

-----------------------------------------------------------------------------
(* Properties of the validation at a unit's boundary.                      *)

(* a JSON number without a fraction *)
IsInteger(j) == j.t = "int" \/ (j.t = "tenths" /\ j.v % 10 = 0)

(* a success result of unit u has its fields, with their types and ranges *)
ResultValid(u) ==
    LET f == returned[u].fields
    IN  CASE u = "stress" ->
               /\ f.stressed_detected \in BOOLEAN
               /\ f.confidence = JNull
                  \/ (f.confidence.t = "tenths" /\ f.confidence.v \in 0..10)
          [] u = "sentiment" ->
               /\ f.sentiment_counts.positive \in Nat
               /\ f.sentiment_counts.negative \in Nat
          [] u = "stressor" -> f.top_stressors \in STRING
          [] u = "blocker" -> f.common_blockers \in STRING
          [] u = "severity" -> f.is_severe_case \in BOOLEAN

(* the object misses a required field of unit u's schema or has it with    *)
(* another JSON type, has a negative sentiment count, or a confidence      *)
(* outside [0,1]                                                           *)
Defective(u, d) ==
    CASE u = "stress" ->
           \/ "stressed_detected" \notin DOMAIN d
           \/ d.stressed_detected.t # "bool"
           \/ /\ "confidence" \in DOMAIN d /\ IsNumber(d.confidence)
              /\ (d.confidence.v < 0 \/ d.confidence.v > (IF d.confidence.t = "int" THEN 1 ELSE 10))
      [] u = "sentiment" ->
           \/ "sentiment_counts" \notin DOMAIN d
           \/ d.sentiment_counts.t # "object"
           \/ \E k \in {"positive", "negative"} :
                 \/ k \notin DOMAIN d.sentiment_counts.v
                 \/ ~IsInteger(d.sentiment_counts.v[k])
                 \/ d.sentiment_counts.v[k].v < 0
      [] u = "stressor" -> "top_stressors" \in DOMAIN d /\ d.top_stressors.t # "str"
      [] u = "blocker" -> "common_blockers" \in DOMAIN d /\ d.common_blockers.t # "str"
      [] u = "severity" ->
           \/ "is_severe_case" \notin DOMAIN d
           \/ d.is_severe_case.t # "bool"

(* the generation completed normally and its text holds no JSON object *)
Unparseable(resp) ==
    /\ resp.raised = "" /\ resp.candidates > 0 /\ resp.finish_reason = 1 /\ resp.has_parts
    /\ \A i \in 1..Len(resp.text) : resp.text[i].t # "json"

(* C16: a unit's success result always has its required fields with their *)
(* types, counts >= 0 and a confidence in [0,1]; a parsed object that      *)
(* misses a required field, has it with the wrong type, has a negative     *)
(* count or a confidence outside [0,1] ends as the unit's failure, a text  *)
(* that is not JSON as a ValueError, and a finished run has the default in *)
(* the field of a failed unit.                                             *)
C16_NoUnvalidatedData ==
    \A u \in Units :
        upc[u] = "done" =>
            /\ Succeeded(u) => ResultValid(u)
            /\ (NormalCompletion(received[u]) /\ Defective(u, ObjectOf(received[u])))
                  => Failed(u)
            /\ Unparseable(received[u])
                  => (Failed(u) /\ IsInstance(returned[u].exc, "ValueError"))
            /\ (Done /\ Failed(u)) => (Reported /\ Analysis[FieldOf(u)] = DefaultOf(u))

-----------------------------------------------------------------------------
(* Properties of the webhook's answer.                                     *)

(* the body of request r is JSON and contains a 'message' object *)
HasMessageObject(r) ==
    LET b == requests[r].body
    IN  b.t = "object" /\ "message" \in DOMAIN b.v /\ b.v.message.t = "object"

(* C17: every POST whose body is JSON with a 'message' object is answered  *)
(* {"status": "ok"}, whatever the message type (any string, or absent) and *)
(* whether or not processing, analysis or the database save fails; every   *)
(* other body is answered with HTTP 400.                                   *)
C17_AcknowledgesAllEvents ==
    \A r \in RequestIds :
        Responded(r) =>
            IF HasMessageObject(r)
            THEN requests[r].response = Ok
            ELSE requests[r].response.status = 400

-----------------------------------------------------------------------------
(* Properties of save_call_report.                                         *)

(* the number of calls that returned ret *)
Count(ret) == Cardinality({i \in 1..Len(db_returns) : db_returns[i] = ret})

(* C18: save_call_report never raises: every call returns True or False,   *)
(* True when the row was inserted and committed and False in every other   *)
(* case (no connection from the pool, cursor creation failed, INSERT       *)
(* failed).                                                                *)
C18_SaveReturnsNeverRaises ==
    /\ \A i \in 1..Len(db_returns) : db_returns[i] \in {"True", "False"}
    /\ Count("True") = Len(db.rows)

-----------------------------------------------------------------------------
(* Properties of the log folders.                                          *)

(* request r has written its analyzed_<call_id>.json *)
AnalysisSaved(r) == requests[r].analysis_folder # 0

(* C19: the analyzed_<call_id>.json file of a request is written into the  *)
(* folder that holds that same request's raw and processed files, also     *)
(* when another end-of-call-report request's folder is created between the *)
(* request's log save and its analysis save.                               *)
C19_AnalysisInOwnFolder ==
    \A r \in DOMAIN requests :
        AnalysisSaved(r) => requests[r].analysis_folder = requests[r].log_folder

-----------------------------------------------------------------------------
(* Properties of the daily reporting script.                               *)

(* the script ran to its last statement *)
Completed == w_pc = "completed"

(* C20: a run of worker.py that completes its steps in order ends with the *)
(* generated PDF having been sent by e-mail as an attachment, after the    *)
(* PDF was written.                                                        *)
C20_CompletedRunMailsPdf ==
    Completed =>
        /\ pdf_filename \in artifacts
        /\ \E i \in 1..Len(emails) : emails[i].attachment = pdf_filename

-----------------------------------------------------------------------------
(* Properties of the call report processor.                                *)

ProcessReturned == pc = "processed"

(* C21: process_end_of_call_report either returns a validated              *)
(* ProcessedCall or raises ValueError (or KeyError), for every message     *)
(* dict: wrong type, missing call.id, assistant.id, startedAt, endedAt or  *)
(* durationSeconds, a duration not > 0, a customer or messages entry that  *)
(* is null or of another shape; no other exception type is raised.         *)
C21_ValueErrorOrKeyErrorOnly ==
    ProcessReturned =>
        \/ process_result.ok
        \/ IsInstance(process_result.exc, "ValueError")
        \/ IsInstance(process_result.exc, "KeyError")

TransformReturned == pc = "transformed" /\ transformed.ok

(* the entries of "messages" given to _transform_messages *)
Raw == raw_message.v.messages.v

(* the positions of the dicts with non-empty 'message' text *)
WithText ==
    {i \in 1..Len(Raw) :
        /\ Raw[i].t = "object"
        /\ "message" \in DOMAIN Raw[i].v
        /\ Raw[i].v.message.t = "str"
        /\ Raw[i].v.message.v # ""}

(* the k-th of these positions *)
Nth(k) == CHOOSE i \in WithText : Cardinality({j \in WithText : j <= i}) = k

(* every dict entry has text (or nothing) as its role and its message *)
AllText ==
    \A i \in 1..Len(Raw) :
        Raw[i].t = "object" =>
            /\ "role" \in DOMAIN Raw[i].v => Raw[i].v.role.t = "str"
            /\ "message" \in DOMAIN Raw[i].v => Raw[i].v.message.t = "str"

(* C27: _transform_messages returns exactly the raw messages that are      *)
(* dicts with non-empty 'message' text, in their original relative order,  *)
(* each as (role, content) with content the raw 'message' and role the raw *)
(* 'role' or 'unknown' when absent; entries that are not dicts or have     *)
(* empty content are dropped, nothing is reordered or duplicated.          *)
C27_TransformKeepsTextInOrder ==
    (pc = "transformed" /\ raw_message.v.messages.t = "list") =>
        /\ AllText => transformed.ok
        /\ transformed.ok =>
              /\ Len(transformed.call) = Cardinality(WithText)
              /\ \A k \in 1..Len(transformed.call) :
                    /\ transformed.call[k].content = Raw[Nth(k)].v.message.v
                    /\ transformed.call[k].role =
                          IF "role" \in DOMAIN Raw[Nth(k)].v
                          THEN Raw[Nth(k)].v.role.v ELSE "unknown"

(* of three entries two were kept, the second of them without a role, and *)
(* the entry that is not a dict was dropped                                *)
C27_Witness ==
    /\ TransformReturned
    /\ raw_message.v.messages.t = "list"
    /\ Len(Raw) = 3
    /\ Len(transformed.call) = 2
    /\ transformed.call[1].role = "user"
    /\ transformed.call[2].role = "unknown"
    /\ \E i \in 1..Len(Raw) : Raw[i].t # "object"

-----------------------------------------------------------------------------
(* Properties of the connection pool.                                      *)

(* C22: every connection save_call_report checks out of the pool is        *)
(* checked back in before it returns or raises, on every path (success,    *)
(* INSERT failure, cursor-creation failure, cursor-close failure): after   *)
(* any sequence of calls no connection remains checked out.                *)
C22_EveryConnectionCheckedIn == db.out = 0

-----------------------------------------------------------------------------
(* Properties of the webhook's logs and database writes.                   *)

(* request r was acknowledged, or is held for its analysis *)
Accepted(r) ==
    \/ requests[r].pc \in {"queued", "analyzing"}
    \/ requests[r].pc = "responded" /\ requests[r].response = Ok

(* the message of request r is an end-of-call-report *)
IsEndOfCallReport(r) ==
    LET b == requests[r].body
    IN  /\ b.t = "object" /\ "message" \in DOMAIN b.v /\ b.v.message.t = "object"
        /\ "type" \in DOMAIN b.v.message.v /\ b.v.message.v.type = JStr(EOCR)

(* processing of request r gave a ProcessedCall *)
ProcessingSucceeded(r) == requests[r].processed.t = "object"

(* the files with this prefix in the folder request r was logged in *)
Logged(r, prefix) == {f \in folders[requests[r].log_folder].files : f.prefix = prefix}

RowSaved(r) ==
    /\ pc = "done" /\ outcome.kind = "report"
    /\ IsEndOfCallReport(r) /\ ProcessingSucceeded(r)
    /\ requests'[r].analysis_folder \in 1..Len(folders')
    /\ File("analyzed", requests[r].processed.v.call_id)
          \in folders'[requests'[r].analysis_folder].files
    /\ db'.rows = Append(db.rows, FromAnalysisReport(outcome.report))

(* C24: the multi-agent analysis runs only for a message of type           *)
(* 'end-of-call-report' whose processing succeeded, and a row is saved to  *)
(* the database only after that message's analysis returned a report and   *)
(* the analysis file was written; a message of another type, a processing  *)
(* failure or an analysis failure never leads to a database write.         *)
C24_RowOnlyAfterAnalysis ==
    /\ [](\A r \in DOMAIN requests :
            (requests[r].pc \in {"queued", "analyzing"} \/ cur = r
                \/ requests[r].analysis_folder # 0 \/ requests[r].saved # "not called")
               => (IsEndOfCallReport(r) /\ ProcessingSucceeded(r)))
    /\ [][db'.rows # db.rows => (cur # 0 /\ RowSaved(cur))]_vars

(* one request's analysis raised and nothing was saved for it, another's   *)
(* returned a report and its row is in the table                           *)
C24_Witness ==
    \E r, q \in DOMAIN requests :
        /\ requests[r].pc = "responded" /\ IsEndOfCallReport(r) /\ ProcessingSucceeded(r)
        /\ requests[r].analysis_folder = 0 /\ requests[r].saved = "not called"
        /\ requests[q].pc = "responded" /\ requests[q].saved = "True"
        /\ requests[q].analysis_folder # 0
        /\ Len(db.rows) = 1 /\ db.rows[1].call_id = requests[q].processed.v.call_id

-----------------------------------------------------------------------------
(* Properties of _parse_json_response.                                     *)

ParseReturned == pc = "parsed"

(* the positions of the ``` delimiters in the text *)
Delimiters == {i \in 1..Len(raw_text) : IsFence(raw_text[i])}

(* tokens i+1..j-1 are one JSON object with nothing but whitespace around *)
OneObject(i, j) ==
    /\ Cardinality({k \in (i + 1)..(j - 1) : raw_text[k].t = "json"}) = 1
    /\ \A k \in (i + 1)..(j - 1) : raw_text[k].t \in {"json", "ws"}

(* the text is a block ```json ... ``` or ``` ... ``` around one object,   *)
(* with prose before or after it                                           *)
DelimitedBlock(i, j) ==
    /\ Delimiters = {i, j} /\ i < j
    /\ raw_text[j].t = "fence"
    /\ OneObject(i, j)

(* the object between positions i and j, as json.loads gives it *)
BareObject(i, j) ==
    JsonLoads(<<raw_text[CHOOSE k \in (i + 1)..(j - 1) : raw_text[k].t = "json"]>>)

(* C25: a JSON object wrapped in a delimited block (```json ... ``` or     *)
(* ``` ... ```, possibly with prose before or after) is returned as        *)
(* parsing the bare JSON text returns it; a response that is not valid     *)
(* JSON after stripping, including one whose opening delimiter has no      *)
(* closing delimiter, raises ValueError.                                   *)
C25_FenceStrippedOrValueError ==
    ParseReturned =>
        /\ \A i, j \in Delimiters :
              DelimitedBlock(i, j) => (parse_result.ok /\ parse_result = BareObject(i, j))
        /\ Cardinality(Delimiters) = 1 => ~parse_result.ok
        /\ (Delimiters = {} /\ ~OneObject(0, Len(raw_text) + 1)) => ~parse_result.ok

-----------------------------------------------------------------------------
(* Properties of the prompts.                                              *)

(* the parts of the prompt sent by unit u that render messages *)
Rendered(u) == SelectSeq(sent[u].prompt.base_prompt, LAMBDA part : part.part = "ROLE: content")

(* the durations the prompt sent by unit u holds *)
DurationsIn(u) ==
    {sent[u].prompt.base_prompt[i].seconds :
        i \in {j \in 1..Len(sent[u].prompt.base_prompt) :
                  sent[u].prompt.base_prompt[j].part = "CALL DURATION: seconds"}}

(* C26: only the severity unit receives the call duration, and for every   *)
(* duration >= 0 passed to classify_severity, 0 included, the severity     *)
(* prompt contains the duration; the prompts of the other four units never *)
(* contain it; every prompt renders the transcript messages in their       *)
(* original order as 'ROLE: content'.                                      *)
C26_DurationInSeverityPromptOnly ==
    \A u \in Units :
        CallSent(u) =>
            /\ u = "severity" => DurationsIn(u) = {duration_seconds}
            /\ u # "severity" => DurationsIn(u) = {}
            /\ Len(Rendered(u)) = Len(transcript)
            /\ \A i \in 1..Len(transcript) :
                  /\ Rendered(u)[i].role = Upper(transcript[i].role)
                  /\ Rendered(u)[i].content = transcript[i].content

-----------------------------------------------------------------------------
(* Termination of OrchestratorAgent.analyze_call.                          *)

(* unit u is in generate_content *)
InCall(u) == upc[u] = "inCall"

(* C28: if every generation-service call eventually returns or raises,     *)
(* every run of analyze_call eventually returns a report or raises; a unit *)
(* whose generation call never returns is the only thing that keeps a run  *)
(* from finishing, and nothing but the service's answer ends a call (no    *)
(* timeout is applied).                                                    *)
C28_TerminatesUnlessCallHangs ==
    /\ (<>Done) \/ (\E u \in Units : <>[]InCall(u))
    /\ [][\A u \in Units :
            (InCall(u) /\ ~InCall(u)') => received'[u] # NoResponse]_vars

(* a run has finished after every unit's call returned or raised *)
C28_Witness ==
    /\ Done
    /\ \A u \in Units : calls[u] = 1 /\ received[u] # NoResponse

-----------------------------------------------------------------------------
(* Properties of the orchestrator singleton.                               *)

(* this step constructs an OrchestratorAgent *)
Constructs == constructions' # constructions

(* the analysis in progress has been handed to the orchestrator *)
Orchestrating == pc \in {"start", "await"} \/ (pc = "done" /\ outcome.site \notin {"validate", "construct"})

Succ(x) == Round(Inc(x.bits), x.e, FALSE)

(* x is y or one of the two floats on either side of y *)
Near(x, y) ==
    \/ x \in {y, Succ(y), Succ(Succ(y))}
    \/ y \in {Succ(x), Succ(Succ(x))}

Hundred == FromInt(100)

Severe(rows) == {i \in 1..Len(rows) : rows[i].is_severe_case = TRUE}

SumOf(x, y) == Add(x, y)

(* what the aggregation gives whatever the percentages add up to: it ends  *)
(* without a ZeroDivisionError, both of a pair are 0 when their total is   *)
(* 0, and the severe-case count is the number of rows flagged severe       *)
ZeroWhenEmpty ==
    /\ w_pc' = "aggregated"
    /\ metrics'.total_positive + metrics'.total_negative > 0
        \/ (metrics'.positive_percentage = Zero /\ metrics'.negative_percentage = Zero)
    /\ Len(call_reports) > 0
        \/ (metrics'.stressed_percentage = Zero /\ metrics'.non_stressed_percentage = Zero)
    /\ metrics'.severe_cases = Cardinality(Severe(call_reports))

(* C30 as stated: in the daily aggregation no division by zero occurs, the *)
(* positive and negative percentages are both 0 when there are no          *)
(* sentiment expressions and otherwise sum to 100, the stressed and        *)
(* non-stressed percentages are both 0 when there are no calls and         *)
(* otherwise sum to 100, and the severe-case count equals the number of    *)
(* reports flagged severe.                                                 *)
C30_PercentagesSumTo100 ==
    [][w_pc = "queried" =>
          /\ ZeroWhenEmpty
          /\ metrics'.total_positive + metrics'.total_negative > 0 =>
                 SumOf(metrics'.positive_percentage, metrics'.negative_percentage) = Hundred
          /\ Len(call_reports) > 0 =>
                 SumOf(metrics'.stressed_percentage, metrics'.non_stressed_percentage) = Hundred]_vars

(* C30, amended: as above, but a pair of percentages that is not both 0    *)
(* adds up, as floats, to 100 or to one of the two floats on either side   *)
(* of 100.                                                                 *)
C30_PercentagesSumTo100Rounded ==
    [][w_pc = "queried" =>
          /\ ZeroWhenEmpty
          /\ metrics'.total_positive + metrics'.total_negative > 0 =>
                 \E sum \in {SumOf(metrics'.positive_percentage, metrics'.negative_percentage)} :
                     Near(sum, Hundred)
          /\ Len(call_reports) > 0 =>
                 \E sum \in {SumOf(metrics'.stressed_percentage, metrics'.non_stressed_percentage)} :
                     Near(sum, Hundred)]_vars

(* two reports, one with no sentiment expressions and one severe, whose    *)
(* positive and negative percentages add up to the float below 100         *)
C30_Witness ==
    /\ w_pc = "aggregated"
    /\ Len(call_reports) = 2
    /\ \E i \in 1..2 : call_reports[i].sentiment_counts.positive
                          + call_reports[i].sentiment_counts.negative = 0
    /\ metrics.total_positive = 2
    /\ metrics.total_negative = 1
    /\ metrics.severe_cases = 1
    /\ Succ(SumOf(metrics.positive_percentage, metrics.negative_percentage)) = Hundred
    /\ SumOf(metrics.stressed_percentage, metrics.non_stressed_percentage) = Hundred

====
